---- MODULE Spec2Model ----
\* Verification model of the SentinelAI options-flow backend:
\*   - TradeAggregator            (src/unnamed/part_010, lines 200-481)
\*   - MassiveWebSocketClient     (src/services/massiveWebSocketClient.js)
\*   - MassiveConnectionFarm      (src/unnamed/part_009)
\*   - options_trades / flow_stats schema and trigger (src/unnamed/part_000)
\*
\* Units.  Prices are held in cents (5.50 -> 550), so sweepPriceDelta 0.10 is 10
\* and the "avgPrice > 5" test is "sum > 500 * count".  Premium price*size*100
\* (dollars) is priceCents*size.  Timestamps are integers in the unit the caller
\* passes to processTrade.
EXTENDS Integers, Sequences, FiniteSets, TLC

VARIABLES
  tradeBuffer,      \* TradeAggregator.tradeBuffer: sequence of buffered entries
  aggStats,         \* TradeAggregator.stats
  lastResult,       \* <<>> or <<r>>: value returned by the last processTrade call
  clientStats,      \* MassiveWebSocketClient.stats
  emitted,          \* sequence of payloads passed to io.emit('flow:all', ...)
  classifiedLog,    \* sequence of (sym, q) keys for which a classification was computed
  seenTrades,       \* MassiveConnectionFarm.seenTrades
  farmStats,        \* MassiveConnectionFarm.stats (trade and quote counters)
  contractVolume,   \* MassiveConnectionFarm.contractVolume: symbol -> contracts seen
  contractLastSeen, \* MassiveConnectionFarm.contractLastSeen: symbol -> Date.now()
  staticContracts,  \* MassiveConnectionFarm.staticContracts
  quoteCache,       \* MassiveConnectionFarm.quoteCache
  handlers,         \* farm handleMessage invocations suspended on a storeTrade query
  framesIn,         \* number of frames delivered so far on the session
  options_trades,   \* rows of table options_trades (sequence, insertion order)
  flow_stats,       \* rows of table flow_stats, as a function date -> row
  dbLog,            \* one entry per persistence call: what was asked and the error it reported
  schema,           \* which of the repository's two schemas the database was built with
  initPc,           \* MassiveConnectionFarm.initialize(): where the call stands
  connections,      \* MassiveConnectionFarm.connections, with each socket's state and frames
  subscribedQuotes, \* MassiveConnectionFarm.subscribedQuotes: connection id -> set of contracts
  subStats,         \* MassiveConnectionFarm.stats (subscription and connection counters)
  rebalanceTimeout, \* the setTimeout of startRebalancing is pending
  rebalanceInterval,\* MassiveConnectionFarm.rebalanceInterval: "null", "set" or "cleared"
  farmClosed,       \* MassiveConnectionFarm.close() has been called
  rebalances,       \* number of rebalanceSubscriptions() runs so far
  optionsWS,        \* MassiveWebSocketClient.optionsWS: the socket's state and frames
  isAuthenticated,  \* MassiveWebSocketClient.isAuthenticated
  connected,        \* MassiveWebSocketClient.stats.connected
  reconnectAttempts,\* MassiveWebSocketClient.reconnectAttempts
  clientTimers,     \* pending setTimeout callbacks of the client
  lastClose,        \* <<>> or <<c>>: what the last 'close' event of the client found and did
  clientClosed,     \* MassiveWebSocketClient.close() has been called
  urgencyIn,        \* <<>> or <<[trade, aggregatorResult]>>: arguments of calculateUrgency
  urgencyOut,       \* <<>> or <<r>>: what calculateUrgency returned for urgencyIn
  callIn,           \* <<>> or <<a>>: arguments of one call of a function of the pipeline
  callOut           \* <<>> or <<r>>: what that call returned for callIn

vars == <<tradeBuffer, aggStats, lastResult, clientStats, emitted, classifiedLog,
          seenTrades, farmStats, contractVolume, contractLastSeen, staticContracts,
          quoteCache, handlers, framesIn, options_trades, flow_stats, dbLog, schema,
          initPc, connections, subscribedQuotes, subStats, rebalanceTimeout,
          rebalanceInterval, farmClosed, rebalances, optionsWS, isAuthenticated,
          connected, reconnectAttempts, clientTimers, lastClose, clientClosed, urgencyIn,
          urgencyOut,
          callIn, callOut>>

aggVars    == <<tradeBuffer, aggStats, lastResult>>
clientVars == <<clientStats>>
farmVars   == <<seenTrades, farmStats, contractVolume, contractLastSeen, staticContracts,
                quoteCache, handlers, framesIn>>
dbVars     == <<options_trades, flow_stats, dbLog, schema>>
connVars   == <<initPc, connections, subscribedQuotes, subStats, rebalanceTimeout,
                rebalanceInterval, farmClosed, rebalances>>
linkVars   == <<optionsWS, isAuthenticated, connected, reconnectAttempts, clientTimers,
                lastClose, clientClosed>>
urgencyVars == <<urgencyIn, urgencyOut>>
callVars   == <<callIn, callOut>>
extVars    == <<connVars, linkVars, urgencyVars, callVars>>

\* ---------------------------------------------------------------- helpers

Max(a, b) == IF a >= b THEN a ELSE b
Abs(x) == IF x < 0 THEN 0 - x ELSE x

\* JavaScript object spread {...a, ...b}
Spread(a, b) == [k \in (DOMAIN a) \cup (DOMAIN b) |-> IF k \in DOMAIN b THEN b[k] ELSE a[k]]

\* Array.prototype.filter
SeqFilter(s, Keep(_)) ==
  LET F[i \in 0..Len(s)] ==
        IF i = 0 THEN <<>>
        ELSE IF Keep(s[i]) THEN Append(F[i - 1], s[i]) ELSE F[i - 1]
  IN F[Len(s)]

\* Array.prototype.reduce((sum, t) => sum + F(t), 0)
SeqSum(s, F(_)) ==
  LET G[i \in 0..Len(s)] == IF i = 0 THEN 0 ELSE G[i - 1] + F(s[i])
  IN G[Len(s)]

SeqRange(s) == {s[i] : i \in 1..Len(s)}

SetMin(S) == CHOOSE m \in S : \A x \in S : m <= x
SetMax(S) == CHOOSE m \in S : \A x \in S : m >= x

\* [...new Set(array)]: distinct values in order of first occurrence
RECURSIVE Distinct(_)
Distinct(s) ==
  IF s = <<>> THEN <<>>
  ELSE LET front == Distinct(SubSeq(s, 1, Len(s) - 1))
           x == s[Len(s)]
       IN IF x \in SeqRange(front) THEN front ELSE Append(front, x)

\* Number -> decimal string, as in a template literal
DigitChar(d) ==
  CASE d = 0 -> "0" [] d = 1 -> "1" [] d = 2 -> "2" [] d = 3 -> "3" [] d = 4 -> "4"
    [] d = 5 -> "5" [] d = 6 -> "6" [] d = 7 -> "7" [] d = 8 -> "8" [] d = 9 -> "9"

RECURSIVE IntToStr(_)
IntToStr(n) ==
  IF n < 0 THEN "-" \o IntToStr(0 - n)
  ELSE IF n < 10 THEN DigitChar(n)
  ELSE IntToStr(n \div 10) \o DigitChar(n % 10)

\* ---------------------------------------------------------------- TradeAggregator

\* Capacity of the trade buffer.  The source sets 10000 (part_010:204); the model
\* runs the same code with a small capacity so that the overflow branch of
\* cleanBuffer is exercised.
bufferMaxSize == 2
bufferMaxAge == 5000
sweepWindow == 750
sweepPriceDelta == 10
sweepMinTotal == 20
sweepMinExchanges == 2
blockMinSize == 500
blockIsolationWindow == 100
blockConditions == {229, 230, 233, 234, 235, 236}
darkVenues == {4, 21, 66}
\* Divisor of the sweep-id time bucket (part_010:362)
sweepBucket == 100
\* avgPrice > 5 (part_010:343), in cents
sweepPriceSplit == 500

\* cleanBuffer(currentTime)
cleanBuffer(buffer, currentTime) ==
  LET fresh(t) == (currentTime - t.processedAt) <= bufferMaxAge
      kept == SeqFilter(buffer, fresh)
  IN IF Len(kept) > bufferMaxSize
     THEN SubSeq(kept, Len(kept) - bufferMaxSize + 1, Len(kept))
     ELSE kept

\* getRecentTrades(symbol, currentTime)
getRecentTrades(buffer, symbol, currentTime) ==
  LET recent(t) == t.contract_symbol = symbol
                   /\ (currentTime - t.processedAt) <= sweepWindow
  IN SeqFilter(buffer, recent)

NoSweep == [accepted |-> FALSE]

\* t.premium || (t.size * t.price * 100)
PremiumOf(t) == IF t.premium # 0 THEN t.premium ELSE t.size * t.price

sweepIdNoFloor(sym, processedAt) == sym \o "_" \o IntToStr(processedAt)

\* `${trade.contract_symbol}_${Math.floor(trade.processedAt / 100)}`
sweepIdOf(sym, processedAt) == sym \o "_" \o IntToStr(processedAt \div sweepBucket)

hybridRuleRejectsEither(exchangeCount, clusterLength) ==
  exchangeCount < sweepMinExchanges \/ clusterLength < 3

\* if (exchangeIds.size < this.sweepMinExchanges && cluster.length < 3) return null
hybridRuleRejects(exchangeCount, clusterLength) ==
  exchangeCount < sweepMinExchanges /\ clusterLength < 3

minContractsFlat(priceSum, count) == sweepMinTotal

\* const minContracts = avgPrice > 5 ? this.sweepMinTotal
\*                                   : Math.floor(this.sweepMinTotal / 2),
\* avgPrice being priceSum / count
minContractsOf(priceSum, count) ==
  IF priceSum > sweepPriceSplit * count THEN sweepMinTotal ELSE sweepMinTotal \div 2

\* detectSweep(trade, recentTrades); trade already carries processedAt
detectSweep(trade, recentTrades) ==
  LET inWindow(t) == Abs(t.processedAt - trade.processedAt) <= sweepWindow
      timeCluster == Append(SeqFilter(recentTrades, inWindow), trade)
      positive(t) == t.price > 0
      priced == SeqFilter(timeCluster, positive)
      prices == {t.price : t \in SeqRange(priced)}
      priceOf(t) == t.price
      sizeOf(t) == t.size
      totalSize == SeqSum(timeCluster, sizeOf)
      priceSum == SeqSum(priced, priceOf)
      minContracts == minContractsOf(priceSum, Len(priced))
      exchangeIds == {t.exchange_id : t \in SeqRange(timeCluster)}
      exchangeNames == Distinct([i \in 1..Len(timeCluster) |-> timeCluster[i].exchange_name])
  IN IF Len(timeCluster) < 2 THEN NoSweep
     ELSE IF Len(priced) = 0 THEN NoSweep
     ELSE IF SetMax(prices) - SetMin(prices) > sweepPriceDelta THEN NoSweep
     ELSE IF totalSize < minContracts THEN NoSweep
     ELSE IF hybridRuleRejects(Cardinality(exchangeIds), Len(timeCluster)) THEN NoSweep
     ELSE [accepted |-> TRUE,
           sweep_id |-> sweepIdOf(trade.contract_symbol, trade.processedAt),
           total_size |-> totalSize,
           total_premium |-> SeqSum(timeCluster, PremiumOf),
           exchange_count |-> Cardinality(exchangeIds),
           exchanges |-> exchangeNames]

NoBlock == [accepted |-> FALSE]

detectBlockAnySize(trade, recentTrades) ==
  LET isLargeSize == trade.size >= blockMinSize
      near(t) == Abs(t.processedAt - trade.processedAt) <= blockIsolationWindow
      isIsolated == Len(SeqFilter(recentTrades, near)) = 0
      hasBlockCode == \E i \in 1..Len(trade.conditions) : trade.conditions[i] \in blockConditions
      isDarkVenue == trade.exchange_id \in darkVenues
  IN IF isLargeSize /\ isIsolated
     THEN [accepted |-> TRUE, isolated |-> isIsolated, reason |-> "LARGE_ISOLATED"]
     ELSE IF hasBlockCode
     THEN [accepted |-> TRUE, isolated |-> isIsolated, reason |-> "OPRA_BLOCK_CODE"]
     ELSE IF isDarkVenue
     THEN [accepted |-> TRUE, isolated |-> isIsolated, reason |-> "DARK_VENUE"]
     ELSE NoBlock

\* detectBlock(trade, recentTrades)
detectBlock(trade, recentTrades) ==
  LET isLargeSize == trade.size >= blockMinSize
      near(t) == Abs(t.processedAt - trade.processedAt) <= blockIsolationWindow
      isIsolated == Len(SeqFilter(recentTrades, near)) = 0
      hasBlockCode == \E i \in 1..Len(trade.conditions) : trade.conditions[i] \in blockConditions
      isDarkVenue == trade.exchange_id \in darkVenues
  IN IF isLargeSize /\ isIsolated THEN [accepted |-> TRUE, isolated |-> isIsolated, reason |-> "LARGE_ISOLATED"]
     ELSE IF hasBlockCode THEN [accepted |-> TRUE, isolated |-> isIsolated, reason |-> "OPRA_BLOCK_CODE"]
     ELSE IF isDarkVenue /\ isLargeSize THEN [accepted |-> TRUE, isolated |-> isIsolated, reason |-> "DARK_VENUE"]
     ELSE NoBlock

FlowClassification ==
  [trade_type |-> "FLOW", is_part_of_sweep |-> FALSE, is_block |-> FALSE,
   sweep_id |-> "null", sweep_total_size |-> 0, sweep_total_premium |-> 0,
   sweep_exchange_count |-> 0, sweep_exchanges |-> <<>>,
   block_isolated |-> FALSE, block_reason |-> "null"]

SweepClassification(sweepResult) ==
  Spread(FlowClassification,
         [trade_type |-> "SWEEP", is_part_of_sweep |-> TRUE,
          sweep_id |-> sweepResult.sweep_id,
          sweep_total_size |-> sweepResult.total_size,
          sweep_total_premium |-> sweepResult.total_premium,
          sweep_exchange_count |-> sweepResult.exchange_count,
          sweep_exchanges |-> sweepResult.exchanges])

BlockClassification(blockResult) ==
  Spread(FlowClassification,
         [trade_type |-> "BLOCK", is_block |-> TRUE,
          block_isolated |-> blockResult.isolated,
          block_reason |-> blockResult.reason])

classifyBlockFirst(sweepResult, blockResult) ==
  IF blockResult.accepted THEN BlockClassification(blockResult)
  ELSE IF sweepResult.accepted THEN SweepClassification(sweepResult)
  ELSE FlowClassification

\* The if / else-if / else of processTrade: SWEEP takes precedence over BLOCK
classify(sweepResult, blockResult) ==
  IF sweepResult.accepted THEN SweepClassification(sweepResult)
  ELSE IF blockResult.accepted THEN BlockClassification(blockResult)
  ELSE FlowClassification

\* const now = trade.timestamp ? trade.timestamp : Date.now()
nowOf(trade, dateNow) == IF trade.timestamp # 0 THEN trade.timestamp ELSE dateNow

\* processTrade(trade): the new buffer, the new stats and the returned object
processTrade(buffer, stats, trade, dateNow) ==
  LET now == nowOf(trade, dateNow)
      stamped == Spread(trade, [processedAt |-> now])
      cleaned == cleanBuffer(buffer, now)
      recentTrades == getRecentTrades(cleaned, stamped.contract_symbol, now)
      sweepResult == detectSweep(stamped, recentTrades)
      blockResult == detectBlock(stamped, recentTrades)
      classification == classify(sweepResult, blockResult)
      kind == classification.trade_type
  IN [buffer |-> Append(cleaned, Spread(stamped, [classification |-> classification])),
      stats |-> [tradesProcessed |-> stats.tradesProcessed + 1,
                 sweepsDetected |-> stats.sweepsDetected + (IF kind = "SWEEP" THEN 1 ELSE 0),
                 blocksDetected |-> stats.blocksDetected + (IF kind = "BLOCK" THEN 1 ELSE 0),
                 flowTrades |-> stats.flowTrades + (IF kind = "FLOW" THEN 1 ELSE 0),
                 clustersAnalyzed |-> stats.clustersAnalyzed + (IF sweepResult.accepted THEN 1 ELSE 0)],
      result |-> Spread(stamped, classification)]

\* ---------------------------------------------------------------- exchange names

\* MassiveWebSocketClient.getExchangeName
getExchangeName(exchangeId) ==
  CASE exchangeId = 65 -> "CBOE" [] exchangeId = 66 -> "ISE" [] exchangeId = 67 -> "AMEX"
    [] exchangeId = 68 -> "PHLX" [] exchangeId = 69 -> "BOX" [] exchangeId = 70 -> "MIAX"
    [] exchangeId = 71 -> "PEARL" [] exchangeId = 72 -> "EMERALD" [] exchangeId = 73 -> "MEMX"
    [] exchangeId = 302 -> "BATS" [] exchangeId = 303 -> "EDGX" [] exchangeId = 304 -> "C2"
    [] exchangeId = 305 -> "BZX" [] exchangeId = 306 -> "GEMX" [] exchangeId = 307 -> "ISE_GEMINI"
    [] exchangeId = 308 -> "ISE_MERCURY" [] exchangeId = 309 -> "NASDAQ_OM"
    [] exchangeId = 310 -> "NASDAQ_BX" [] exchangeId = 311 -> "NASDAQ_PHLX"
    [] exchangeId = 312 -> "NYSE_ARCA" [] exchangeId = 313 -> "NYSE_AMERICAN"
    [] exchangeId = 316 -> "MIAX_SAPPHIRE"
    [] OTHER -> "UNKNOWN (" \o IntToStr(exchangeId) \o ")"

\* ---------------------------------------------------------------- inputs

\* Number of processTrade calls explored from the empty aggregator
MaxTrades == 3

SymAMD == "O:AMD251219C00155000"
SymNVDA == "O:NVDA251122P00145000"

\* Upstream trade messages {ev:'T', sym, p, s, x, c, t, q} without t and q
MsgShapes ==
  { [sym |-> SymAMD,  p |-> 550, s |-> 40,  x |-> 65,  c |-> <<>>],
    [sym |-> SymAMD,  p |-> 550, s |-> 40,  x |-> 66,  c |-> <<>>],
    [sym |-> SymAMD,  p |-> 550, s |-> 40,  x |-> 302, c |-> <<>>],
    [sym |-> SymAMD,  p |-> 550, s |-> 600, x |-> 65,  c |-> <<233>>],
    [sym |-> SymNVDA, p |-> 300, s |-> 800, x |-> 4,   c |-> <<>>] }

\* Values of the message timestamp t: two in one 100-unit bucket, one 70 and 120
\* later, and one more than sweepWindow after all of them and more than
\* bufferMaxAge after the first two
Times == {1000, 1050, 1120, 6080}

\* Value of Date.now() when a trade carries no timestamp
DateNows == {1050}

\* The object MassiveWebSocketClient.handleTrade passes to processTrade
aggregatorInput(msg) ==
  [contract_symbol |-> msg.sym, price |-> msg.p, size |-> msg.s,
   premium |-> msg.p * msg.s, exchange_id |-> msg.x,
   exchange_name |-> getExchangeName(msg.x), conditions |-> msg.c,
   timestamp |-> msg.t]

\* ---------------------------------------------------------------- symbols

\* A symbol without expiry, side or strike
SymBad == "O:AMD"
\* An underlying's symbol, as stock quotes carry it
SymStock == "AMD"
\* a second contract on AMD
SymAMDPut == "O:AMD251219P00150000"
\* A symbol cut off after the expiry: no side, no strike
SymCut == "O:AMD251219"

\* The characters of each symbol string of the model
Chars(sym) ==
  CASE sym = SymAMD -> <<"O", ":", "A", "M", "D", "2", "5", "1", "2", "1", "9", "C", "0", "0", "1", "5", "5", "0", "0", "0">>
    [] sym = SymNVDA -> <<"O", ":", "N", "V", "D", "A", "2", "5", "1", "1", "2", "2", "P", "0", "0", "1", "4", "5", "0", "0", "0">>
    [] sym = SymBad -> <<"O", ":", "A", "M", "D">>
    [] sym = SymAMDPut -> <<"O", ":", "A", "M", "D", "2", "5", "1", "2", "1", "9", "P", "0", "0", "1", "5", "0", "0", "0", "0">>
    [] sym = SymStock -> <<"A", "M", "D">>
    [] sym = SymCut -> <<"O", ":", "A", "M", "D", "2", "5", "1", "2", "1", "9">>

UpperLetters == {"A", "B", "C", "D", "E", "F", "G", "H", "I", "J", "K", "L", "M",
                 "N", "O", "P", "Q", "R", "S", "T", "U", "V", "W", "X", "Y", "Z"}
Digits == {"0", "1", "2", "3", "4", "5", "6", "7", "8", "9"}

DigitValue(ch) ==
  CASE ch = "0" -> 0 [] ch = "1" -> 1 [] ch = "2" -> 2 [] ch = "3" -> 3 [] ch = "4" -> 4
    [] ch = "5" -> 5 [] ch = "6" -> 6 [] ch = "7" -> 7 [] ch = "8" -> 8 [] ch = "9" -> 9

\* parseInt of a string of decimal digits
ParseDigits(ds) ==
  LET V[i \in 0..Len(ds)] == IF i = 0 THEN 0 ELSE V[i - 1] * 10 + DigitValue(ds[i])
  IN V[Len(ds)]

\* cs[from .. from+n-1] exists and consists of characters of set S
RunOf(cs, from, n, S) ==
  /\ from >= 1 /\ from + n - 1 <= Len(cs)
  /\ \A k \in from..(from + n - 1) : cs[k] \in S

\* Length of the longest run of characters of S that starts at cs[from]
RunLength(cs, from, S) ==
  LET lens == {n \in 0..(Len(cs) - from + 1) : RunOf(cs, from, n, S)}
  IN SetMax(lens)

NoParse == [ok |-> FALSE]

\* /O:([A-Z]+)(\d{6,7})([CP])(\d{8})/ tried at position i: the letters are followed
\* by a digit and the date digits by C or P, so each group's extent is forced
matchAt(cs, i) ==
  IF ~(i + 1 <= Len(cs) /\ cs[i] = "O" /\ cs[i + 1] = ":") THEN NoParse
  ELSE LET nTicker == RunLength(cs, i + 2, UpperLetters)
           dateAt == i + 2 + nTicker
           nDigits == RunLength(cs, dateAt, Digits)
           sideAt == dateAt + nDigits
       IN IF nTicker >= 1 /\ nDigits \in {6, 7} /\ sideAt <= Len(cs)
             /\ cs[sideAt] \in {"C", "P"} /\ RunOf(cs, sideAt + 1, 8, Digits)
          THEN [ok |-> TRUE,
                ticker |-> SubSeq(cs, i + 2, dateAt - 1),
                dateStr |-> SubSeq(cs, dateAt, sideAt - 1),
                side |-> cs[sideAt],
                strikeStr |-> SubSeq(cs, sideAt + 1, sideAt + 8)]
          ELSE NoParse

\* MassiveWebSocketClient.parseContractSymbol on the characters cs of the symbol:
\* the leftmost regex match, then {ticker, expiration, type, strike}; strike is
\* kept in thousandths
parseSymbolChars(cs) ==
  LET hits == {i \in 1..Len(cs) : matchAt(cs, i).ok}
  IN IF hits = {} THEN NoParse
     ELSE LET m == matchAt(cs, SetMin(hits))
              yearDigits == Len(m.dateStr) - 4
          IN [ok |-> TRUE,
              ticker |-> m.ticker,
              expiration |-> [year |-> 2000 + ParseDigits(SubSeq(m.dateStr, 1, yearDigits)),
                              month |-> SubSeq(m.dateStr, yearDigits + 1, yearDigits + 2),
                              day |-> SubSeq(m.dateStr, yearDigits + 3, yearDigits + 4)],
              type |-> IF m.side = "C" THEN "CALL" ELSE "PUT",
              strike |-> ParseDigits(m.strikeStr)]

\* MassiveWebSocketClient.parseContractSymbol(symbol)
parseContractSymbol(sym) == parseSymbolChars(Chars(sym))

\* ---------------------------------------------------------------- database

\* The repository creates the tables in two ways:
\*   "schema.sql"  - part_000: unique index idx_unique_trade, NOT NULL opra_code,
\*                   trigger update_flow_stats, today's flow_stats row
\*   "createTable" - part_005 createTable(): the columns the client inserts, no
\*                   unique index, no trigger
\* Neither has the columns spread and delta_flow that the farm's storeTrade names.
Schemas == {"schema.sql", "createTable"}

\* Day on which schema.sql was loaded (CURRENT_DATE at part_000:205)
SchemaDate == "1970-01-01"

ZeroFlowStats ==
  [total_trades |-> 0, total_premium |-> 0, call_trades |-> 0, call_premium |-> 0,
   put_trades |-> 0, put_premium |-> 0, sweep_trades |-> 0, sweep_premium |-> 0,
   block_trades |-> 0, block_premium |-> 0, flow_trades |-> 0, flow_premium |-> 0]

\* flow_stats right after the schema was created
initialFlowStats(sch) ==
  IF sch = "schema.sql" THEN [d \in {SchemaDate} |-> ZeroFlowStats]
  ELSE [d \in {} |-> ZeroFlowStats]

\* INSERT INTO flow_stats (date, total_trades, total_premium) VALUES (NEW.date, 1, NEW.premium):
\* the row of a date not yet present gets only these columns, the rest their defaults
flowStatsInsert(stats, new) ==
  [d \in (DOMAIN stats) \cup {new.date} |->
     IF d # new.date THEN stats[d]
     ELSE Spread(ZeroFlowStats, [total_trades |-> 1, total_premium |-> new.premium])]

\* ... ON CONFLICT (date) DO UPDATE SET ...
flowStatsUpdate(stats, new) ==
  LET old == stats[new.date]
      isCall == new.contract_type = "CALL"
      isPut == new.contract_type = "PUT"
      isSweep == new.trade_type = "SWEEP"
      isBlock == new.trade_type = "BLOCK"
  IN [stats EXCEPT ![new.date] =
        Spread(old,
          [total_trades |-> old.total_trades + 1,
           total_premium |-> old.total_premium + new.premium,
           call_trades |-> IF isCall THEN old.call_trades + 1 ELSE old.call_trades,
           call_premium |-> IF isCall THEN old.call_premium + new.premium ELSE old.call_premium,
           put_trades |-> IF isPut THEN old.put_trades + 1 ELSE old.put_trades,
           put_premium |-> IF isPut THEN old.put_premium + new.premium ELSE old.put_premium,
           sweep_trades |-> IF isSweep THEN old.sweep_trades + 1 ELSE old.sweep_trades,
           sweep_premium |-> IF isSweep THEN old.sweep_premium + new.premium ELSE old.sweep_premium,
           block_trades |-> IF isBlock THEN old.block_trades + 1 ELSE old.block_trades,
           block_premium |-> IF isBlock THEN old.block_premium + new.premium ELSE old.block_premium])]

\* update_flow_stats(), fired AFTER INSERT ON options_trades FOR EACH ROW
update_flow_stats(stats, new) ==
  IF new.date \in DOMAIN stats THEN flowStatsUpdate(stats, new)
  ELSE flowStatsInsert(stats, new)

\* idx_unique_trade: a stored row with the same (contract_symbol, sequence_number)
uniqueConflict(rows, row) ==
  \E i \in 1..Len(rows) :
    /\ rows[i].contract_symbol = row.contract_symbol
    /\ rows[i].sequence_number = row.sequence_number

\* The column list of each INSERT statement against each table definition:
\*   "storeTrade"  - the farm's list (part_009:681-687) names spread and delta_flow,
\*                   columns of neither table
\*   "insertTrade" - the client's list (massiveWebSocketClient.js:374-382) names
\*                   flow_direction, urgency_* and sweep_*: columns of createTable only
\*   "INSERT"      - a statement written against schema.sql's own columns
columnsExist(sch, statement) ==
  CASE statement = "storeTrade" -> FALSE
    [] statement = "insertTrade" -> sch = "createTable"
    [] statement = "INSERT" -> sch = "schema.sql"

\* One INSERT INTO options_trades; only "storeTrade" carries
\* ON CONFLICT (contract_symbol, sequence_number) DO NOTHING.  dbUp = FALSE is a
\* failed query.  Result: the tables afterwards and the error the query rejects
\* with ("none": resolved).
dbInsert(sch, rows, stats, statement, row, dbUp) ==
  LET failed(err) == [rows |-> rows, stats |-> stats, error |-> err]
  IN IF ~dbUp THEN failed("connection error")
     ELSE IF ~columnsExist(sch, statement) THEN failed("column does not exist")
     ELSE IF sch = "schema.sql" THEN
       IF row.opra_code = <<>> THEN failed("null value in column violates not-null constraint")
       ELSE IF uniqueConflict(rows, row) THEN
         failed(IF statement = "storeTrade" THEN "none"
                ELSE "duplicate key value violates unique constraint")
       ELSE [rows |-> Append(rows, row), stats |-> update_flow_stats(stats, row), error |-> "none"]
     ELSE [rows |-> Append(rows, row), stats |-> stats, error |-> "none"]

\* MassiveConnectionFarm.storeTrade: the query's error is caught; it is logged
\* unless its message contains 'duplicate'
storeTrade(sch, rows, stats, trade, dbUp) ==
  LET r == dbInsert(sch, rows, stats, "storeTrade", trade, dbUp)
  IN [rows |-> r.rows, stats |-> r.stats,
      logged |-> IF r.error # "none" THEN <<r.error>> ELSE <<>>,
      thrown |-> "none"]

\* MassiveWebSocketClient.insertTrade: the query's error is rethrown to the caller
insertTrade(sch, rows, stats, trade, dbUp) ==
  LET r == dbInsert(sch, rows, stats, "insertTrade", trade, dbUp)
  IN [rows |-> r.rows, stats |-> r.stats, logged |-> <<>>, thrown |-> r.error]

\* ---------------------------------------------------------------- initial state

InitAgg ==
  /\ tradeBuffer = <<>>
  /\ aggStats = [tradesProcessed |-> 0, sweepsDetected |-> 0, blocksDetected |-> 0,
                 flowTrades |-> 0, clustersAnalyzed |-> 0]
  /\ lastResult = <<>>

InitClient ==
  /\ clientStats = [tradesReceived |-> 0, tradesInserted |-> 0, tradesBroadcast |-> 0,
                    sweepsDetected |-> 0, blocksDetected |-> 0, errors |-> 0]

InitFarm ==
  /\ seenTrades = {}
  /\ farmStats = [tradesReceived |-> 0, quotesReceived |-> 0, tradesStored |-> 0,
                  tradesBroadcast |-> 0]
  /\ contractVolume = <<>>
  /\ contractLastSeen = <<>>
  /\ staticContracts = {}
  /\ quoteCache = <<>>
  /\ handlers = {}
  /\ framesIn = 0

InitDb(schemas) ==
  /\ schema \in schemas
  /\ options_trades = <<>>
  /\ flow_stats = initialFlowStats(schema)
  /\ dbLog = <<>>

\* The farm as its constructor leaves it (part_009:21-60): no connection yet
InitConn ==
  /\ initPc = "constructed"
  /\ connections = <<>>
  /\ subscribedQuotes = <<>>
  /\ subStats = [staticSubscriptions |-> 0, dynamicSubscriptions |-> 0, connectionsActive |-> 0]
  /\ rebalanceTimeout = FALSE
  /\ rebalanceInterval = "null"
  /\ farmClosed = FALSE
  /\ rebalances = 0

\* The client as its constructor leaves it (massiveWebSocketClient.js:6-38)
InitLink ==
  /\ optionsWS = <<>>
  /\ isAuthenticated = FALSE
  /\ connected = FALSE
  /\ reconnectAttempts = 0
  /\ clientTimers = [authenticate |-> FALSE, reconnect |-> FALSE]
  /\ lastClose = <<>>
  /\ clientClosed = FALSE

InitUrgency(inputs) ==
  /\ urgencyIn \in inputs
  /\ urgencyOut = <<>>

\* No call is in progress unless a specification names its arguments
InitCall(inputs) ==
  /\ callIn \in inputs
  /\ callOut = <<>>

Init ==
  /\ InitAgg /\ InitClient /\ InitFarm /\ InitDb({"schema.sql"})
  /\ InitConn /\ InitLink /\ InitUrgency({<<>>}) /\ InitCall({<<>>})
  /\ emitted = <<>>
  /\ classifiedLog = <<>>

\* ---------------------------------------------------------------- aggregator alone

\* One call of TradeAggregator.processTrade
ProcessTrade(trade, dateNow) ==
  /\ aggStats.tradesProcessed < MaxTrades
  /\ LET out == processTrade(tradeBuffer, aggStats, trade, dateNow)
     IN /\ tradeBuffer' = out.buffer
        /\ aggStats' = out.stats
        /\ lastResult' = <<out.result>>
  /\ UNCHANGED <<clientVars, farmVars, dbVars, emitted, classifiedLog, extVars>>

Next ==
  \E shape \in MsgShapes, t \in Times, dateNow \in DateNows :
    ProcessTrade(aggregatorInput(Spread(shape, [t |-> t])), dateNow)

Spec == Init /\ [][Next]_vars

\* ---------------------------------------------------------------- aggregator claims

\* The trade of the last processTrade call, as it sits at the end of the buffer,
\* and the recentTrades that call computed (the buffer after cleanBuffer)
LastEntry == tradeBuffer[Len(tradeBuffer)]
LastRecent ==
  getRecentTrades(SubSeq(tradeBuffer, 1, Len(tradeBuffer) - 1),
                  LastEntry.contract_symbol, LastEntry.processedAt)
LastSweepAccepts == detectSweep(LastEntry, LastRecent).accepted
LastBlockAccepts == detectBlock(LastEntry, LastRecent).accepted

\* C1: the trade_type returned by processTrade is one of SWEEP, BLOCK, FLOW:
\* SWEEP when the sweep predicate accepts (also when the block predicate accepts
\* too), otherwise BLOCK when the block predicate accepts, otherwise FLOW.
C1_Precedence ==
  lastResult # <<>> =>
    /\ lastResult[1].trade_type \in {"SWEEP", "BLOCK", "FLOW"}
    /\ LastSweepAccepts => lastResult[1].trade_type = "SWEEP"
    /\ (~LastSweepAccepts /\ LastBlockAccepts) => lastResult[1].trade_type = "BLOCK"
    /\ (~LastSweepAccepts /\ ~LastBlockAccepts) => lastResult[1].trade_type = "FLOW"

\* A trade accepted by both predicates was returned as SWEEP
C1_Witness ==
  /\ lastResult # <<>>
  /\ LastSweepAccepts /\ LastBlockAccepts
  /\ lastResult[1].trade_type = "SWEEP"

\* C5: right after processTrade returns, the buffer holds at most bufferMaxSize
\* entries and every entry is at most bufferMaxAge older than the trade just handled.
C5_WindowBounded ==
  lastResult # <<>> =>
    /\ Len(tradeBuffer) <= bufferMaxSize
    /\ \A i \in 1..Len(tradeBuffer) :
         lastResult[1].processedAt - tradeBuffer[i].processedAt <= bufferMaxAge

\* Scenario A: nothing has been evicted, and the buffer's entries on `sym` are three
\* prints of size 40 at 5.50 on three distinct exchanges within 300 of each other
EntriesOn(sym) ==
  LET on(t) == t.contract_symbol = sym IN SeqFilter(tradeBuffer, on)

ScenarioA(sym) ==
  LET es == EntriesOn(sym)
  IN /\ aggStats.tradesProcessed = Len(tradeBuffer)
     /\ Len(es) = 3
     /\ \A i \in 1..3 : es[i].size = 40 /\ es[i].price = 550
     /\ Cardinality({es[i].exchange_id : i \in 1..3}) = 3
     /\ \A i, j \in 1..3 : Abs(es[i].processedAt - es[j].processedAt) <= 300

\* C6 (as stated): in scenario A all three trades are labelled SWEEP, carry the
\* same sweep_id and each reports sweep_exchange_count = 3.
C6_AllThreeSweep ==
  \A sym \in {SymAMD, SymNVDA} :
    ScenarioA(sym) =>
      LET es == EntriesOn(sym)
      IN /\ \A i \in 1..3 : es[i].classification.trade_type = "SWEEP"
         /\ \A i \in 1..3 : es[i].classification.sweep_exchange_count = 3
         /\ \A i, j \in 1..3 : es[i].classification.sweep_id = es[j].classification.sweep_id

\* C6 (amended): in scenario A, with no other trade on the contract processed
\* before, the first trade is not labelled SWEEP (it is FLOW when it carries no
\* condition code) and has no sweep_id, the second is SWEEP with
\* sweep_exchange_count = 2, the third is SWEEP with sweep_exchange_count = 3, and
\* the second and third share a sweep_id exactly when their processedAt fall in
\* the same 100-unit bucket.
C6_OnlineSweep ==
  \A sym \in {SymAMD, SymNVDA} :
    ScenarioA(sym) =>
      LET es == EntriesOn(sym)
      IN /\ es[1].classification.trade_type # "SWEEP"
         /\ es[1].conditions = <<>> => es[1].classification.trade_type = "FLOW"
         /\ es[1].classification.sweep_id = "null"
         /\ es[2].classification.trade_type = "SWEEP"
         /\ es[2].classification.sweep_exchange_count = 2
         /\ es[3].classification.trade_type = "SWEEP"
         /\ es[3].classification.sweep_exchange_count = 3
         /\ (es[2].classification.sweep_id = es[3].classification.sweep_id)
              <=> (es[2].processedAt \div 100 = es[3].processedAt \div 100)

\* Scenario A has been processed, its trades spread over two 100-unit buckets
C6_Witness ==
  /\ ScenarioA(SymAMD)
  /\ Cardinality({EntriesOn(SymAMD)[i].processedAt \div 100 : i \in 1..3}) = 2
  /\ lastResult[1].contract_symbol = SymAMD

\* C7: two buffered trades on the same contract whose processedAt fall in the
\* same 100-unit bucket and that are both labelled SWEEP carry the same sweep_id.
C7_SweepIdPerBucket ==
  \A i, j \in 1..Len(tradeBuffer) :
    ( /\ tradeBuffer[i].contract_symbol = tradeBuffer[j].contract_symbol
      /\ tradeBuffer[i].processedAt \div 100 = tradeBuffer[j].processedAt \div 100
      /\ tradeBuffer[i].classification.trade_type = "SWEEP"
      /\ tradeBuffer[j].classification.trade_type = "SWEEP" )
    => tradeBuffer[i].classification.sweep_id = tradeBuffer[j].classification.sweep_id

\* Two sweeps of one contract and one bucket, processed at different instants and
\* against different buffers
C7_Witness ==
  \E i, j \in 1..Len(tradeBuffer) :
    /\ i < j
    /\ tradeBuffer[i].contract_symbol = tradeBuffer[j].contract_symbol
    /\ tradeBuffer[i].processedAt # tradeBuffer[j].processedAt
    /\ tradeBuffer[i].processedAt \div 100 = tradeBuffer[j].processedAt \div 100
    /\ tradeBuffer[i].classification.trade_type = "SWEEP"
    /\ tradeBuffer[j].classification.trade_type = "SWEEP"
    /\ tradeBuffer[i].classification.sweep_exchange_count
         # tradeBuffer[j].classification.sweep_exchange_count

\* C8: a trade of size 600 carrying condition code 233, with no other trade on its
\* contract within 100 of it, is labelled SWEEP and not BLOCK.
C8_Code233IsSweep ==
  ( /\ lastResult # <<>>
    /\ lastResult[1].size = 600
    /\ 233 \in SeqRange(lastResult[1].conditions)
    /\ \A i \in 1..(Len(tradeBuffer) - 1) :
         tradeBuffer[i].contract_symbol = lastResult[1].contract_symbol
           => Abs(tradeBuffer[i].processedAt - lastResult[1].processedAt) > 100 )
  => lastResult[1].trade_type = "SWEEP"

\* ---------------------------------------------------------------- persistence alone

\* Number of persistence calls explored from the freshly created database
MaxDbCalls == 3

\* Classified trades handed to the persistence calls (the columns the database
\* logic reads; opra_code is trade.c[0], absent for an empty condition array)
DbTrades ==
  { [contract_symbol |-> SymAMD, sequence_number |-> 1, date |-> "1970-01-01",
     contract_type |-> "CALL", trade_type |-> "SWEEP", premium |-> 22000, opra_code |-> <<220>>],
    [contract_symbol |-> SymAMD, sequence_number |-> 2, date |-> "1970-01-01",
     contract_type |-> "CALL", trade_type |-> "FLOW", premium |-> 30000, opra_code |-> <<>>],
    [contract_symbol |-> SymNVDA, sequence_number |-> 1, date |-> "1970-01-01",
     contract_type |-> "PUT", trade_type |-> "BLOCK", premium |-> 30000, opra_code |-> <<238>>],
    [contract_symbol |-> SymAMD, sequence_number |-> 3, date |-> "1970-01-02",
     contract_type |-> "CALL", trade_type |-> "FLOW", premium |-> 25000, opra_code |-> <<202>>],
    [contract_symbol |-> SymNVDA, sequence_number |-> 2, date |-> "1970-01-02",
     contract_type |-> "PUT", trade_type |-> "SWEEP", premium |-> 40000, opra_code |-> <<233>>] }

logEntry(statement, trade, dbUp, stored, error) ==
  [statement |-> statement, contract_symbol |-> trade.contract_symbol,
   sequence_number |-> trade.sequence_number, dbUp |-> dbUp, stored |-> stored,
   error |-> error]

\* A call of MassiveConnectionFarm.storeTrade(trade)
DbStoreTrade(trade, dbUp) ==
  /\ Len(dbLog) < MaxDbCalls
  /\ LET r == storeTrade(schema, options_trades, flow_stats, trade, dbUp)
     IN /\ options_trades' = r.rows
        /\ flow_stats' = r.stats
        /\ dbLog' = Append(dbLog,
             logEntry("storeTrade", trade, dbUp, Len(r.rows) > Len(options_trades),
                      IF r.logged = <<>> THEN "none" ELSE r.logged[1]))
  /\ UNCHANGED <<aggVars, clientVars, farmVars, schema, emitted, classifiedLog, extVars>>

\* A call of MassiveWebSocketClient.insertTrade(trade)
DbInsertTrade(trade, dbUp) ==
  /\ Len(dbLog) < MaxDbCalls
  /\ LET r == insertTrade(schema, options_trades, flow_stats, trade, dbUp)
     IN /\ options_trades' = r.rows
        /\ flow_stats' = r.stats
        /\ dbLog' = Append(dbLog,
             logEntry("insertTrade", trade, dbUp, Len(r.rows) > Len(options_trades), r.thrown))
  /\ UNCHANGED <<aggVars, clientVars, farmVars, schema, emitted, classifiedLog, extVars>>

\* An INSERT INTO options_trades written against schema.sql's columns: the event
\* trigger_update_flow_stats is declared on
DbInsertRow(trade, dbUp) ==
  /\ Len(dbLog) < MaxDbCalls
  /\ schema = "schema.sql"
  /\ LET r == dbInsert(schema, options_trades, flow_stats, "INSERT", trade, dbUp)
     IN /\ options_trades' = r.rows
        /\ flow_stats' = r.stats
        /\ dbLog' = Append(dbLog,
             logEntry("INSERT", trade, dbUp, Len(r.rows) > Len(options_trades), r.error))
  /\ UNCHANGED <<aggVars, clientVars, farmVars, schema, emitted, classifiedLog, extVars>>

InitDbSpec ==
  /\ InitAgg /\ InitClient /\ InitFarm /\ InitDb(Schemas)
  /\ InitConn /\ InitLink /\ InitUrgency({<<>>}) /\ InitCall({<<>>})
  /\ emitted = <<>>
  /\ classifiedLog = <<>>

NextDb ==
  \E trade \in DbTrades, dbUp \in BOOLEAN :
    \/ DbStoreTrade(trade, dbUp)
    \/ DbInsertTrade(trade, dbUp)
    \/ DbInsertRow(trade, dbUp)

SpecDb == InitDbSpec /\ [][NextDb]_vars

\* C9: after any number of insertions, every flow_stats row satisfies
\* call_premium + put_premium = total_premium, also the row created by the first
\* insertion of a date.
C9_AggregateConsistent ==
  \A d \in DOMAIN flow_stats :
    flow_stats[d].call_premium + flow_stats[d].put_premium = flow_stats[d].total_premium

RowsWithKey(sym, q) ==
  LET same(r) == r.contract_symbol = sym /\ r.sequence_number = q
  IN SeqFilter(options_trades, same)

\* C10: persisting a trade whose (contract_symbol, sequence_number) was already
\* persisted by the same sink leaves exactly one stored row with that key, stores
\* nothing and reports no error.
C10_IdempotentUpsert ==
  \A j \in 1..Len(dbLog) :
    ( /\ dbLog[j].dbUp
      /\ \E i \in 1..(j - 1) :
           /\ dbLog[i].stored
           /\ dbLog[i].statement = dbLog[j].statement
           /\ dbLog[i].contract_symbol = dbLog[j].contract_symbol
           /\ dbLog[i].sequence_number = dbLog[j].sequence_number )
    => /\ dbLog[j].error = "none"
       /\ ~dbLog[j].stored
       /\ Len(RowsWithKey(dbLog[j].contract_symbol, dbLog[j].sequence_number)) = 1

\* ---------------------------------------------------------------- MassiveWebSocketClient

\* Number of frames delivered to the client
MaxClientFrames == 3

\* Trade messages of the client's feed: two prints and a malformed symbol, each
\* with sequence numbers 1 and 2
ClientMsgs ==
  { Spread(shape, [ev |-> "T", t |-> t, q |-> q]) :
      shape \in { [sym |-> SymAMD, p |-> 550, s |-> 40,  x |-> 65, c |-> <<>>],
                  [sym |-> SymAMD, p |-> 550, s |-> 600, x |-> 66, c |-> <<233>>],
                  [sym |-> SymBad, p |-> 550, s |-> 40,  x |-> 65, c |-> <<>>] },
      t \in {1000, 1050}, q \in {1, 2} }

\* A frame is a JSON array of messages
ClientFrames ==
  {<<m>> : m \in ClientMsgs}
    \cup {<<m1, m2>> : m1 \in {m \in ClientMsgs : m.q = 1 /\ m.t = 1000},
                       m2 \in {m \in ClientMsgs : m.sym = SymAMD /\ m.t = 1050 /\ m.s = 40}}

\* The client state threaded through one frame:
\*   c = [buffer, aggStats, last: the aggregator; stats; classified]

\* this.stats.tradesReceived++
clientReceived(c) == [c EXCEPT !.stats.tradesReceived = @ + 1]

\* handleTrade from the return of processTrade on (lines 156-235).  Line 176 reads
\* the undeclared identifier tradeDate: the ReferenceError is caught at line 233,
\* which counts an error and returns.  The statements after line 176 (insertTrade,
\* io.emit) are never reached.
clientClassified(c, trade, arrival, out) ==
  [buffer |-> out.buffer,
   aggStats |-> out.stats,
   last |-> <<out.result>>,
   stats |-> [c.stats EXCEPT
                !.sweepsDetected = @ + (IF out.result.trade_type = "SWEEP" THEN 1 ELSE 0),
                !.blocksDetected = @ + (IF out.result.trade_type = "BLOCK" THEN 1 ELSE 0),
                !.errors = @ + 1],
   classified |-> Append(c.classified,
                         [sym |-> trade.sym, q |-> trade.q, arrival |-> arrival])]

\* MassiveWebSocketClient.handleTrade(trade)
clientHandleTrade(c, trade, arrival, dateNow) ==
  IF ~parseContractSymbol(trade.sym).ok THEN clientReceived(c)
  ELSE clientClassified(clientReceived(c), trade, arrival,
                        processTrade(c.buffer, c.aggStats, aggregatorInput(trade), dateNow))

\* MassiveWebSocketClient.processMessage(msg)
clientProcessMessage(c, msg, arrival, dateNow) ==
  IF msg.ev = "T" THEN clientHandleTrade(c, msg, arrival, dateNow) ELSE c

\* MassiveWebSocketClient.handleMessage(data): the messages of the frame in order.
\* No handler suspends on I/O (handleTrade returns before its only await), so a
\* frame is handled without interleaving.
clientHandleMessage(c, frame, frameNo, dateNow) ==
  LET R[i \in 0..Len(frame)] ==
        IF i = 0 THEN c ELSE clientProcessMessage(R[i - 1], frame[i], <<frameNo, i>>, dateNow)
  IN R[Len(frame)]

\* The client state read from and written back to the variables
clientState ==
  [buffer |-> tradeBuffer, aggStats |-> aggStats, last |-> lastResult,
   stats |-> clientStats, classified |-> classifiedLog]

clientCommit(c) ==
  /\ tradeBuffer' = c.buffer
  /\ aggStats' = c.aggStats
  /\ lastResult' = c.last
  /\ clientStats' = c.stats
  /\ classifiedLog' = c.classified

\* The 'message' event of the options socket
ClientMessage(frame, dateNow) ==
  /\ framesIn < MaxClientFrames
  /\ clientCommit(clientHandleMessage(clientState, frame, framesIn + 1, dateNow))
  /\ framesIn' = framesIn + 1
  /\ UNCHANGED <<emitted, seenTrades, farmStats, contractVolume, contractLastSeen,
                 staticContracts, quoteCache, handlers, dbVars, extVars>>

NextClient ==
  \E frame \in ClientFrames, dateNow \in DateNows : ClientMessage(frame, dateNow)

SpecClient == Init /\ [][NextClient]_vars

\* Number of log entries with the key (sym, q)
CountKey(log, sym, q) ==
  Cardinality({i \in 1..Len(log) : log[i].sym = sym /\ log[i].q = q})

\* C2: of the trade messages with one (sym, q), only the first produces a
\* classified trade, however many other trades were handled in between.
C2_Dedup ==
  \A i \in 1..Len(classifiedLog) :
    CountKey(classifiedLog, classifiedLog[i].sym, classifiedLog[i].q) = 1

\* C4: once no handler is in flight, every trade that was classified has been
\* emitted on flow:all exactly once.
C4_EmittedOnce ==
  handlers = {} =>
    \A i \in 1..Len(classifiedLog) :
      Cardinality({j \in 1..Len(emitted) : emitted[j].arrival = classifiedLog[i].arrival}) = 1

\* ---------------------------------------------------------------- MassiveConnectionFarm

\* Number of frames delivered to the farm's connections
MaxFrames == 3

\* Size of seenTrades above which handleTrade clears it.  The source sets 100000
\* (part_009:396); the model runs the same code with a small size so that the
\* clearing branch is exercised.
seenTradesMax == 2

\* if (premium >= 20000), part_009:383, in dollars
storeThreshold == 20000

\* Map.get(k) || d, Map.get(k) as an optional value, and Map.set(k, v)
MapGet(m, k, d) == IF k \in DOMAIN m THEN m[k] ELSE d
MapGetOpt(m, k) == IF k \in DOMAIN m THEN <<m[k]>> ELSE <<>>
MapSet(m, k, v) == [x \in (DOMAIN m) \cup {k} |-> IF x = k THEN v ELSE m[x]]

\* OPRA trade type mapping
TRADE_TYPES ==
  [code \in {220, 233, 238, 239, 202} |->
     CASE code = 220 -> [label |-> "SWEEP", subtype |-> "ISO", priority |-> "high"]
       [] code = 233 -> [label |-> "SWEEP", subtype |-> "COMPLEX", priority |-> "high"]
       [] code = 238 -> [label |-> "BLOCK", subtype |-> "BLOCK", priority |-> "high"]
       [] code = 239 -> [label |-> "CROSS", subtype |-> "CROSS", priority |-> "medium"]
       [] code = 202 -> [label |-> "FLOW", subtype |-> "null", priority |-> "low"]]

\* this.staticTickers: the list loadTickers falls back to (part_009:124)
staticTickers ==
  { <<"S", "P", "Y">>, <<"Q", "Q", "Q">>, <<"T", "S", "L", "A">>,
    <<"A", "A", "P", "L">>, <<"N", "V", "D", "A">> }

\* symbol.replace('O:', ''): the first occurrence is removed
removeFirstO(cs) ==
  LET hits == {i \in 1..(Len(cs) - 1) : cs[i] = "O" /\ cs[i + 1] = ":"}
  IN IF hits = {} THEN cs
     ELSE SubSeq(cs, 1, SetMin(hits) - 1) \o SubSeq(cs, SetMin(hits) + 2, Len(cs))

\* String.prototype.substring(from, to) on 1-based positions from..to, clipped
Substring(cs, from, to) ==
  IF from > Len(cs) THEN <<>> ELSE SubSeq(cs, from, IF to > Len(cs) THEN Len(cs) ELSE to)

\* parseInt(str): the leading decimal digits, NaN (<<>>) when there are none
parseInt(cs) ==
  IF RunLength(cs, 1, Digits) = 0 THEN <<>>
  ELSE <<ParseDigits(SubSeq(cs, 1, RunLength(cs, 1, Digits)))>>

\* The fields parseContract cuts out once the first run of six digits is at
\* position d of the cleaned symbol.  strike is kept in thousandths; dte (days
\* from today to the expiration) is not carried.
contractFields(sym, clean, d) ==
  [ok |-> TRUE,
   ticker |-> SubSeq(clean, 1, d - 1),
   strike |-> parseInt(Substring(clean, d + 7, d + 14)),
   expiration |-> [year |-> 2000 + ParseDigits(SubSeq(clean, d, d + 1)),
                   month |-> SubSeq(clean, d + 2, d + 3),
                   day |-> SubSeq(clean, d + 4, d + 5)],
   contractType |-> IF Substring(clean, d + 6, d + 6) = <<"C">> THEN "CALL" ELSE "PUT",
   contractSymbol |-> sym]

\* clean.match(/\d{6}/): positions where six digits start
dateMatches(clean) == {i \in 1..Len(clean) : RunOf(clean, i, 6, Digits)}

\* parseContract on the characters cs of the symbol sym
parseContractChars(sym, cs) ==
  IF dateMatches(removeFirstO(cs)) = {} THEN NoParse
  ELSE contractFields(sym, removeFirstO(cs), SetMin(dateMatches(removeFirstO(cs))))

\* MassiveConnectionFarm.parseContract(symbol)
parseContract(sym) == parseContractChars(sym, Chars(sym))

\* The object classifyTrade returns
classified(opraInfo, priority, level, highlight) ==
  [type |-> opraInfo.label, subtype |-> opraInfo.subtype, priority |-> priority,
   level |-> level, highlight |-> highlight]

\* TRADE_TYPES[trade.c[0]] || TRADE_TYPES[202]
opraInfoOf(c) ==
  IF Len(c) > 0 /\ c[1] \in DOMAIN TRADE_TYPES THEN TRADE_TYPES[c[1]] ELSE TRADE_TYPES[202]

\* classifyTrade with a quote {bp, ap} at hand
classifyQuoted(opraInfo, price, bid, ask) ==
  IF opraInfo.label \notin {"SWEEP", "BLOCK"} THEN classified(opraInfo, 3, "FLOW", FALSE)
  ELSE IF price > ask THEN classified(opraInfo, 1, "ABOVE_ASK", TRUE)
  ELSE IF price < bid THEN classified(opraInfo, 1, "BELOW_BID", TRUE)
  ELSE IF price = ask THEN classified(opraInfo, 2, "AT_ASK", FALSE)
  ELSE IF price = bid THEN classified(opraInfo, 2, "AT_BID", FALSE)
  ELSE classified(opraInfo, 3, "MID", FALSE)

\* MassiveConnectionFarm.classifyTrade(trade, quote); quote is <<>> or <<q>>
classifyTrade(trade, quote) ==
  IF quote = <<>>
  THEN classified(opraInfoOf(trade.c),
                  IF opraInfoOf(trade.c).label \in {"SWEEP", "BLOCK", "CROSS"} THEN 2 ELSE 3,
                  "UNKNOWN", FALSE)
  ELSE classifyQuoted(opraInfoOf(trade.c), trade.p, quote[1].bp, quote[1].ap)

\* MassiveConnectionFarm.getExchangeName(id)
farmExchangeName(id) ==
  CASE id = 65 -> "CBOE" [] id = 66 -> "ISE" [] id = 67 -> "AMEX" [] id = 68 -> "PHLX"
    [] id = 69 -> "BOX" [] id = 302 -> "BATS" [] id = 303 -> "EDGX" [] id = 304 -> "C2"
    [] OTHER -> "UNKNOWN"

Pad2(n) == IF n < 10 THEN "0" \o IntToStr(n) ELSE IntToStr(n)

\* Year, month and day of the day that is `days` days after 1970-01-01 (UTC)
civilFromDays(days) ==
  LET z == days + 719468
      era == z \div 146097
      doe == z - era * 146097
      yoe == (doe - doe \div 1460 + doe \div 36524 - doe \div 146096) \div 365
      doy == doe - (365 * yoe + yoe \div 4 - yoe \div 100)
      mp == (5 * doy + 2) \div 153
      m == IF mp < 10 THEN mp + 3 ELSE mp - 9
  IN [year |-> yoe + era * 400 + (IF m <= 2 THEN 1 ELSE 0),
      month |-> m,
      day |-> doy - (153 * mp + 2) \div 5 + 1]

msPerDay == 86400000

\* new Date(t).toISOString().split('T')[0]
isoDate(t) ==
  IntToStr(civilFromDays(t \div msPerDay).year) \o "-"
    \o Pad2(civilFromDays(t \div msPerDay).month) \o "-"
    \o Pad2(civilFromDays(t \div msPerDay).day)

\* new Date(t).toISOString().split('T')[1].split('.')[0]
isoTime(t) ==
  Pad2(((t % msPerDay) \div 1000) \div 3600) \o ":"
    \o Pad2((((t % msPerDay) \div 1000) % 3600) \div 60) \o ":"
    \o Pad2(((t % msPerDay) \div 1000) % 60)

\* isBullish of handleTrade
isBullish(parsed, classification) ==
  \/ parsed.contractType = "CALL" /\ classification.level \in {"ABOVE_ASK", "AT_ASK"}
  \/ parsed.contractType = "PUT" /\ classification.level \in {"BELOW_BID", "AT_BID"}

\* let deltaFlow = 0; if (quote) deltaFlow = isBullish ? premium : -premium
deltaFlowOf(parsed, quote, classification, premium) ==
  IF quote = <<>> THEN 0
  ELSE IF isBullish(parsed, classification) THEN premium ELSE 0 - premium

\* The tradeData object of handleTrade.  Absent values (null, undefined) are <<>>.
farmTradeData(trade, parsed, quote, classification) ==
  [timestamp |-> trade.t,
   date |-> isoDate(trade.t),
   time |-> isoTime(trade.t),
   ticker |-> parsed.ticker,
   strike |-> parsed.strike,
   expiration |-> parsed.expiration,
   contract_type |-> parsed.contractType,
   contract_symbol |-> trade.sym,
   price |-> trade.p,
   size |-> trade.s,
   premium |-> trade.p * trade.s,
   spot_price |-> <<>>,
   bid |-> IF quote = <<>> THEN <<>> ELSE <<quote[1].bp>>,
   ask |-> IF quote = <<>> THEN <<>> ELSE <<quote[1].ap>>,
   spread |-> IF quote = <<>> THEN <<>> ELSE <<quote[1].ap - quote[1].bp>>,
   delta_flow |-> deltaFlowOf(parsed, quote, classification, trade.p * trade.s),
   opra_code |-> IF Len(trade.c) > 0 THEN <<trade.c[1]>> ELSE <<>>,
   trade_type |-> classification.type,
   trade_subtype |-> classification.subtype,
   execution_level |-> classification.level,
   priority |-> classification.priority,
   highlight |-> classification.highlight,
   exchange_id |-> trade.x,
   exchange_name |-> farmExchangeName(trade.x),
   has_quote |-> quote # <<>>,
   sequence_number |-> trade.q]

\* The farm state threaded through one run of a handler:
\*   f = [seen, stats, volume, lastSeen, staticC, quotes, emitted, classified, pending]
\* pending is <<>>, or <<p>> once the handler has issued the storeTrade query of the
\* trade that arrived as p.arrival and awaits it.

\* `${trade.sym}-${trade.q}`
dedupKey(trade) == trade.sym \o "-" \o IntToStr(trade.q)

\* handleTrade from seenTrades.add(key) to contractLastSeen.set (lines 314-321)
farmReceived(f, trade, dateNow) ==
  [f EXCEPT !.seen = @ \cup {dedupKey(trade)},
            !.stats.tradesReceived = @ + 1,
            !.volume = MapSet(@, trade.sym, MapGet(@, trade.sym, 0) + trade.s),
            !.lastSeen = MapSet(@, trade.sym, dateNow)]

\* handleTrade from io.emit to the end (lines 389-398)
farmBroadcast(f, tradeData, arrival) ==
  [f EXCEPT !.emitted = Append(@, [payload |-> tradeData, arrival |-> arrival]),
            !.stats.tradesBroadcast = @ + 1,
            !.seen = IF Cardinality(@) > seenTradesMax THEN {} ELSE @]

\* if (premium >= 20000) { await this.storeTrade(tradeData); ... }
farmDispatch(f, tradeData, arrival) ==
  IF tradeData.premium >= storeThreshold
  THEN [f EXCEPT !.pending = <<[arrival |-> arrival, tradeData |-> tradeData]>>]
  ELSE farmBroadcast(f, tradeData, arrival)

\* handleTrade once the symbol has parsed (lines 331-381)
farmClassified(f, trade, arrival, parsed, quote) ==
  farmDispatch(
    [f EXCEPT !.staticC = IF parsed.ticker \in staticTickers THEN @ \cup {trade.sym} ELSE @,
              !.classified = Append(@, [sym |-> trade.sym, q |-> trade.q, arrival |-> arrival])],
    farmTradeData(trade, parsed, quote, classifyTrade(trade, quote)),
    arrival)

\* MassiveConnectionFarm.handleTrade(trade), up to its await or its end
farmHandleTrade(f, trade, arrival, dateNow) ==
  IF dedupKey(trade) \in f.seen THEN f
  ELSE IF ~parseContract(trade.sym).ok THEN farmReceived(f, trade, dateNow)
  ELSE farmClassified(farmReceived(f, trade, dateNow), trade, arrival,
                      parseContract(trade.sym), MapGetOpt(f.quotes, trade.sym))

\* quote.sym.startsWith('O:')
startsWithO(cs) == Len(cs) >= 2 /\ cs[1] = "O" /\ cs[2] = ":"

\* MassiveConnectionFarm.handleQuote(quote).  The spot price (bp + ap) / 2 is held
\* in cents; the model's stock quotes have an even bp + ap.
farmHandleQuote(f, quote) ==
  [f EXCEPT !.stats.quotesReceived = @ + 1,
            !.quotes =
              IF startsWithO(Chars(quote.sym))
              THEN MapSet(@, quote.sym, [bp |-> quote.bp, ap |-> quote.ap, bs |-> quote.bs,
                                         as |-> quote.as, t |-> quote.t])
              ELSE IF quote.bp # 0 /\ quote.ap # 0
              THEN MapSet(@, "SPOT_" \o quote.sym, (quote.bp + quote.ap) \div 2)
              ELSE @]

\* MassiveConnectionFarm.processMessage(connection, msg)
farmProcessMessage(f, msg, arrival, dateNow) ==
  CASE msg.ev = "T" -> farmHandleTrade(f, msg, arrival, dateNow)
    [] msg.ev = "Q" -> farmHandleQuote(f, msg)
    [] OTHER -> f

\* MassiveConnectionFarm.handleMessage: the messages frame[from..] in order, until
\* one of them awaits its storeTrade query
farmRunFrame(f, frame, frameNo, from, dateNow) ==
  LET R[i \in (from - 1)..Len(frame)] ==
        IF i = from - 1 THEN f
        ELSE IF R[i - 1].pending # <<>> THEN R[i - 1]
        ELSE farmProcessMessage(R[i - 1], frame[i], <<frameNo, i>>, dateNow)
  IN R[Len(frame)]

\* The farm state read from and written back to the variables
farmState ==
  [seen |-> seenTrades, stats |-> farmStats, volume |-> contractVolume,
   lastSeen |-> contractLastSeen, staticC |-> staticContracts, quotes |-> quoteCache,
   emitted |-> emitted, classified |-> classifiedLog, pending |-> <<>>]

farmCommit(f, others, frame, frameNo) ==
  /\ seenTrades' = f.seen
  /\ farmStats' = f.stats
  /\ contractVolume' = f.volume
  /\ contractLastSeen' = f.lastSeen
  /\ staticContracts' = f.staticC
  /\ quoteCache' = f.quotes
  /\ emitted' = f.emitted
  /\ classifiedLog' = f.classified
  /\ handlers' = IF f.pending = <<>> THEN others
                 ELSE others \cup {[frameNo |-> frameNo, frame |-> frame,
                                    pos |-> f.pending[1].arrival[2],
                                    tradeData |-> f.pending[1].tradeData]}

\* Trade and quote messages of the farm's feed
TradeA1 == [ev |-> "T", sym |-> SymAMD, p |-> 550, s |-> 40, x |-> 65, c |-> <<233>>,
            t |-> 1000, q |-> 1]
TradeA2 == [ev |-> "T", sym |-> SymAMD, p |-> 550, s |-> 30, x |-> 66, c |-> <<202>>,
            t |-> 1050, q |-> 2]
TradeN1 == [ev |-> "T", sym |-> SymNVDA, p |-> 300, s |-> 800, x |-> 4, c |-> <<>>,
            t |-> 86401000, q |-> 1]
TradeBad == [ev |-> "T", sym |-> SymBad, p |-> 550, s |-> 40, x |-> 65, c |-> <<220>>,
             t |-> 1000, q |-> 1]
TradeCut == [ev |-> "T", sym |-> SymCut, p |-> 550, s |-> 40, x |-> 65, c |-> <<202>>,
             t |-> 1000, q |-> 1]
QuoteA == [ev |-> "Q", sym |-> SymAMD, bp |-> 540, ap |-> 550, bs |-> 10, as |-> 12, t |-> 900]
QuoteStock == [ev |-> "Q", sym |-> SymStock, bp |-> 15400, ap |-> 15500, bs |-> 1, as |-> 1,
               t |-> 900]
StatusMsg == [ev |-> "status", message |-> "auth_success"]

\* A frame is a JSON array of messages
FarmFrames ==
  { <<TradeA1>>, <<TradeA2>>, <<TradeA1, TradeA2>>, <<TradeN1>>, <<TradeBad>>,
    <<TradeCut>>, <<QuoteA>>, <<QuoteStock>>, <<StatusMsg>> }

\* The 'message' event of a connection: handleMessage runs until its first
\* storeTrade query is in flight, or to its end
FarmMessage(frame, dateNow) ==
  /\ framesIn < MaxFrames
  /\ farmCommit(farmRunFrame(farmState, frame, framesIn + 1, 1, dateNow),
                handlers, frame, framesIn + 1)
  /\ framesIn' = framesIn + 1
  /\ UNCHANGED <<aggVars, clientVars, dbVars, extVars>>

\* What the handler h does once its query has settled with result r: storeTrade
\* has swallowed any error, so tradesStored++, the broadcast, and the rest of the
\* frame follow
farmStored(h, r, dbUp, dateNow) ==
  /\ options_trades' = r.rows
  /\ flow_stats' = r.stats
  /\ dbLog' = Append(dbLog,
       logEntry("storeTrade", h.tradeData, dbUp, Len(r.rows) > Len(options_trades),
                IF r.logged = <<>> THEN "none" ELSE r.logged[1]))
  /\ farmCommit(
       farmRunFrame(
         farmBroadcast([farmState EXCEPT !.stats.tradesStored = @ + 1],
                       h.tradeData, <<h.frameNo, h.pos>>),
         h.frame, h.frameNo, h.pos + 1, dateNow),
       handlers \ {h}, h.frame, h.frameNo)

\* The pool settles the query of a suspended handler.  Queries run on the pool's
\* separate connections, so they settle in any order.
FarmStoreDone(h, dbUp, dateNow) ==
  /\ h \in handlers
  /\ farmStored(h, storeTrade(schema, options_trades, flow_stats, h.tradeData, dbUp),
                dbUp, dateNow)
  /\ UNCHANGED <<aggVars, clientVars, framesIn, schema, extVars>>

NextFarm ==
  \/ \E frame \in FarmFrames, dateNow \in DateNows : FarmMessage(frame, dateNow)
  \/ \E h \in handlers, dbUp \in BOOLEAN, dateNow \in DateNows : FarmStoreDone(h, dbUp, dateNow)

SpecFarm == Init /\ [][NextFarm]_vars

\* arrival a precedes arrival b: earlier frame, or earlier position in one frame
ArrivedBefore(a, b) == a[1] < b[1] \/ (a[1] = b[1] /\ a[2] < b[2])

\* C3: of two trades on one contract, the one that arrived first on the session
\* is broadcast on flow:all first, for every interleaving of the handlers and of
\* their pending database inserts.
C3_ArrivalOrder ==
  \A i, j \in 1..Len(emitted) :
    ( /\ i < j
      /\ emitted[i].payload.contract_symbol = emitted[j].payload.contract_symbol )
    => ArrivedBefore(emitted[i].arrival, emitted[j].arrival)

\* ---------------------------------------------------------------- classification on the farm

\* The execution levels of a Classified Trade
ExecutionLevels == {"ABOVE_ASK", "AT_ASK", "MID", "AT_BID", "BELOW_BID", "UNKNOWN"}

\* The quote a broadcast payload was classified with is absent or invalid
\* (bid <= 0, ask <= 0 or ask < bid)
QuoteAbsentOrInvalid(p) ==
  \/ p.bid = <<>>
  \/ p.ask = <<>>
  \/ p.bid[1] <= 0
  \/ p.ask[1] <= 0
  \/ p.ask[1] < p.bid[1]

\* C18: every trade the farm classifies carries an execution_level in
\* {ABOVE_ASK, AT_ASK, MID, AT_BID, BELOW_BID, UNKNOWN}, and the level is UNKNOWN
\* if and only if the cached quote of the contract is absent or invalid.
C18_ExecutionLevel ==
  \A i \in 1..Len(emitted) :
    /\ emitted[i].payload.execution_level \in ExecutionLevels
    /\ (emitted[i].payload.execution_level = "UNKNOWN")
         <=> QuoteAbsentOrInvalid(emitted[i].payload)

\* The priority table of the specification on (trade_type, execution_level, premium);
\* premium in dollars
PriorityTable(type, level, premium) ==
  CASE level = "UNKNOWN" -> [priority |-> 4, highlight |-> FALSE]
    [] type \in {"SWEEP", "BLOCK"} /\ level = "ABOVE_ASK" ->
         [priority |-> 1, highlight |-> TRUE]
    [] type \in {"SWEEP", "BLOCK"} /\ level = "AT_ASK" ->
         [priority |-> 2, highlight |-> premium >= 100000]
    [] type \in {"SWEEP", "BLOCK"} /\ level = "AT_BID" ->
         [priority |-> 3, highlight |-> premium >= 250000]
    [] type = "FLOW" /\ level \in {"ABOVE_ASK", "AT_ASK"} ->
         [priority |-> 3, highlight |-> premium >= 200000]
    [] type \in {"SWEEP", "BLOCK"} /\ level \in {"BELOW_BID", "MID"} ->
         [priority |-> 4, highlight |-> FALSE]
    [] type = "FLOW" /\ level \in {"AT_BID", "MID", "BELOW_BID"} ->
         [priority |-> 4, highlight |-> premium >= 300000]

\* C19: the priority and the highlight of a classified trade equal the table
\* lookup on (trade_type, execution_level, premium), for every trade whose type
\* and level are rows of the table.
C19_PriorityTable ==
  \A i \in 1..Len(emitted) :
    ( /\ emitted[i].payload.trade_type \in {"SWEEP", "BLOCK", "FLOW"}
      /\ emitted[i].payload.execution_level \in ExecutionLevels )
    => /\ emitted[i].payload.priority =
            PriorityTable(emitted[i].payload.trade_type, emitted[i].payload.execution_level,
                          emitted[i].payload.premium).priority
       /\ emitted[i].payload.highlight =
            PriorityTable(emitted[i].payload.trade_type, emitted[i].payload.execution_level,
                          emitted[i].payload.premium).highlight

\* ---------------------------------------------------------------- urgency

\* Everything the aggregator, the trade handlers and the database hold
coreVars == <<aggVars, clientVars, farmVars, dbVars, emitted, classifiedLog>>

\* calculateUrgency, the sweep part (massiveWebSocketClient.js:249-258)
sweepScore(aggregatorResult) ==
  IF aggregatorResult.trade_type # "SWEEP" THEN 0
  ELSE IF aggregatorResult.sweep_exchange_count >= 6 THEN 30 + 15
  ELSE IF aggregatorResult.sweep_exchange_count >= 4 THEN 30 + 10
  ELSE IF aggregatorResult.sweep_exchange_count >= 2 THEN 30 + 5
  ELSE 30

\* calculateUrgency, the premium part (lines 260-265); premium in dollars
premiumScore(premium) ==
  IF premium >= 2000000 THEN 30
  ELSE IF premium >= 1000000 THEN 25
  ELSE IF premium >= 500000 THEN 20
  ELSE IF premium >= 200000 THEN 15
  ELSE IF premium >= 100000 THEN 10
  ELSE IF premium >= 50000 THEN 5
  ELSE 0

\* const aggressiveCodes = [220, 229, 230] of calculateUrgency
aggressiveCodes == {220, 229, 230}

\* trade.c?.some(c => aggressiveCodes.includes(c)); an absent trade.c is <<>>
hasAggressiveCode(c) == \E i \in 1..Len(c) : c[i] \in aggressiveCodes

\* calculateUrgency, the score before the level is chosen (lines 247-273).
\* trade.p is in cents, so trade.p * trade.s * 100 dollars is trade.p * trade.s.
urgencyScore(trade, aggregatorResult) ==
  sweepScore(aggregatorResult)
  + premiumScore(trade.p * trade.s)
  + (IF hasAggressiveCode(trade.c) THEN 20 ELSE 0)
  + (IF aggregatorResult.trade_type = "BLOCK" THEN 10 ELSE 0)

urgencyLevelAbove(score) ==
  IF score > 80 THEN [level |-> "EXTREME", label |-> "Aggressive Sweep", color |-> "#FF1493"]
  ELSE IF score > 60 THEN [level |-> "HIGH", label |-> "Aggressive", color |-> "#FF8C00"]
  ELSE IF score > 40 THEN [level |-> "MODERATE", label |-> "Moderate", color |-> "#FFD700"]
  ELSE [level |-> "LOW", label |-> "Passive", color |-> "#808080"]

\* calculateUrgency, the level, label and color of a score (lines 242-245, 275-287)
urgencyLevel(score) ==
  IF score >= 80 THEN [level |-> "EXTREME", label |-> "Aggressive Sweep", color |-> "#FF1493"]
  ELSE IF score >= 60 THEN [level |-> "HIGH", label |-> "Aggressive", color |-> "#FF8C00"]
  ELSE IF score >= 40 THEN [level |-> "MODERATE", label |-> "Moderate", color |-> "#FFD700"]
  ELSE [level |-> "LOW", label |-> "Passive", color |-> "#808080"]

\* MassiveWebSocketClient.calculateUrgency(trade, aggregatorResult)
calculateUrgency(trade, aggregatorResult) ==
  Spread([score |-> urgencyScore(trade, aggregatorResult)],
         urgencyLevel(urgencyScore(trade, aggregatorResult)))

\* Verdicts of the aggregator: a sweep spans at least sweepMinExchanges exchanges
UrgencyVerdicts ==
  { [trade_type |-> "FLOW", sweep_exchange_count |-> 0],
    [trade_type |-> "BLOCK", sweep_exchange_count |-> 0] }
  \cup { [trade_type |-> "SWEEP", sweep_exchange_count |-> n] : n \in sweepMinExchanges..7 }

\* Trades at $1.00 whose sizes put the premium on and next to every band edge
UrgencyTrades ==
  { [p |-> 100, s |-> s, c |-> c] :
      s \in {100, 499, 500, 999, 1000, 2000, 5000, 10000, 19999, 20000},
      c \in {<<>>, <<202>>, <<220>>, <<233, 229>>, <<209, 230>>} }

UrgencyInputs ==
  { <<[trade |-> t, aggregatorResult |-> a]>> : t \in UrgencyTrades, a \in UrgencyVerdicts }

\* One call of calculateUrgency on the arguments held in urgencyIn
CalculateUrgency ==
  /\ urgencyIn # <<>>
  /\ urgencyOut = <<>>
  /\ urgencyOut' = <<calculateUrgency(urgencyIn[1].trade, urgencyIn[1].aggregatorResult)>>
  /\ UNCHANGED <<coreVars, connVars, linkVars, urgencyIn, callVars>>

InitUrgencySpec ==
  /\ InitAgg /\ InitClient /\ InitFarm /\ InitDb({"schema.sql"})
  /\ InitConn /\ InitLink /\ InitUrgency(UrgencyInputs) /\ InitCall({<<>>})
  /\ emitted = <<>>
  /\ classifiedLog = <<>>

NextUrgency == CalculateUrgency

SpecUrgency == InitUrgencySpec /\ [][NextUrgency]_vars

\* The score the specification gives: sweep 30 plus 5 / 10 / 15 for >= 2 / 4 / 6
\* exchanges, a premium band, 20 for a condition code in {220, 229, 230}, block 10
C20_Sweep(a) ==
  IF a.trade_type = "SWEEP"
  THEN 30 + (CASE a.sweep_exchange_count >= 6 -> 15
               [] a.sweep_exchange_count \in 4..5 -> 10
               [] a.sweep_exchange_count \in 2..3 -> 5
               [] OTHER -> 0)
  ELSE 0
C20_Aggressive(t) == IF SeqRange(t.c) \cap {220, 229, 230} # {} THEN 20 ELSE 0
C20_Block(a) == IF a.trade_type = "BLOCK" THEN 10 ELSE 0
C20_Band(score, t, a) == score - C20_Sweep(a) - C20_Aggressive(t) - C20_Block(a)

\* C20: calculateUrgency returns a score in [0, 100] equal to the sweep part plus
\* a premium band in 0..30 plus the aggressive-code part plus the block part, and
\* the level is EXTREME iff score >= 80, HIGH iff 60 <= score < 80, MODERATE iff
\* 40 <= score < 60, LOW otherwise.
C20_Urgency ==
  urgencyOut # <<>> =>
    /\ urgencyOut[1].score \in 0..100
    /\ C20_Band(urgencyOut[1].score, urgencyIn[1].trade, urgencyIn[1].aggregatorResult)
         \in {0, 5, 10, 15, 20, 25, 30}
    /\ (urgencyOut[1].level = "EXTREME") <=> (urgencyOut[1].score >= 80)
    /\ (urgencyOut[1].level = "HIGH")
         <=> (urgencyOut[1].score >= 60 /\ urgencyOut[1].score < 80)
    /\ (urgencyOut[1].level = "MODERATE")
         <=> (urgencyOut[1].score >= 40 /\ urgencyOut[1].score < 60)
    /\ (urgencyOut[1].level = "LOW") <=> (urgencyOut[1].score < 40)

\* A sweep over four exchanges with a $500,000 premium and code 220 scores
\* exactly 80 and is EXTREME
C20_Witness ==
  /\ urgencyOut # <<>>
  /\ urgencyIn[1].aggregatorResult = [trade_type |-> "SWEEP", sweep_exchange_count |-> 4]
  /\ urgencyIn[1].trade = [p |-> 100, s |-> 5000, c |-> <<220>>]
  /\ urgencyOut[1].score = 80
  /\ urgencyOut[1].level = "EXTREME"

\* ---------------------------------------------------------------- the client's session

\* this.maxReconnectAttempts
maxReconnectAttempts == 10

\* Bound on stats.errors, which the 'error' events would otherwise count without end
MaxErrors == 11

\* ws.send(frame): the frame goes out on an open socket and is dropped on a
\* closed one.  sent keeps the frames that went out on this socket.
wsSend(ws, frame) ==
  IF ws.readyState = "OPEN" THEN [ws EXCEPT !.sent = Append(@, frame)] ELSE ws

\* new WebSocket(url); reopened tells a socket made by reconnect() from the first one
newWebSocket(reopened) == [readyState |-> "CONNECTING", sent |-> <<>>, reopened |-> reopened]

AuthFrame == [action |-> "auth", params |-> "apiKey"]
SubscribeFrame(channel) == [action |-> "subscribe", params |-> channel]
UnsubscribeFrame(channel) == [action |-> "unsubscribe", params |-> channel]

subscribeToTradesFirstOnly(ws) ==
  IF ws.reopened THEN ws ELSE wsSend(ws, SubscribeFrame("T.*"))

\* MassiveWebSocketClient.subscribeToTrades()
subscribeToTrades(ws) == wsSend(ws, SubscribeFrame("T.*"))

\* server.js calls wsClient.connect() once
LinkConnect ==
  /\ optionsWS = <<>>
  /\ optionsWS' = <<newWebSocket(FALSE)>>
  /\ UNCHANGED <<coreVars, connVars, urgencyVars, callVars, isAuthenticated, connected,
                 reconnectAttempts, clientTimers, lastClose, clientClosed>>

\* The timer of reconnect() fires: this.connect().  It was set for 5000 ms at a
\* 'close', after the 1000 ms timer of authenticate() of the socket that closed,
\* so that timer has fired before.
LinkReconnectTimer ==
  /\ clientTimers.reconnect
  /\ ~clientTimers.authenticate
  /\ optionsWS' = <<newWebSocket(TRUE)>>
  /\ clientTimers' = [clientTimers EXCEPT !.reconnect = FALSE]
  /\ UNCHANGED <<coreVars, connVars, urgencyVars, callVars, isAuthenticated, connected,
                 reconnectAttempts, lastClose, clientClosed>>

\* 'open': stats.connected = true, reconnectAttempts = 0, authenticate(), which
\* sends the auth frame and sets the 1000 ms timer
LinkOpen ==
  /\ optionsWS # <<>>
  /\ optionsWS[1].readyState = "CONNECTING"
  /\ optionsWS' = <<wsSend([optionsWS[1] EXCEPT !.readyState = "OPEN"], AuthFrame)>>
  /\ connected' = TRUE
  /\ reconnectAttempts' = 0
  /\ clientTimers' = [clientTimers EXCEPT !.authenticate = TRUE]
  /\ UNCHANGED <<coreVars, connVars, urgencyVars, callVars, isAuthenticated, lastClose,
                 clientClosed>>

\* The timer of authenticate() fires: isAuthenticated = true, subscribeToTrades()
\* on this.optionsWS, whatever its state
LinkAuthTimer ==
  /\ clientTimers.authenticate
  /\ isAuthenticated' = TRUE
  /\ optionsWS' = <<subscribeToTrades(optionsWS[1])>>
  /\ clientTimers' = [clientTimers EXCEPT !.authenticate = FALSE]
  /\ UNCHANGED <<coreVars, connVars, urgencyVars, callVars, connected, reconnectAttempts,
                 lastClose, clientClosed>>

\* reconnect(): the attempt counter after the call
reconnectCount(attempts) ==
  IF attempts >= maxReconnectAttempts THEN attempts ELSE attempts + 1

\* reconnect(): whether the call sets the timer of this.connect()
reconnectScheduled(attempts) == ~(attempts >= maxReconnectAttempts)

\* The socket closes: an 'error' event first when withError (stats.errors++),
\* then 'close': stats.connected = false, isAuthenticated = false, reconnect().
\* lastClose records the counter the handler found and whether it set the timer.
linkClosed(withError) ==
  /\ optionsWS' = <<[optionsWS[1] EXCEPT !.readyState = "CLOSED"]>>
  /\ clientStats' = IF withError THEN [clientStats EXCEPT !.errors = @ + 1] ELSE clientStats
  /\ connected' = FALSE
  /\ isAuthenticated' = FALSE
  /\ reconnectAttempts' = reconnectCount(reconnectAttempts)
  /\ clientTimers' = [clientTimers EXCEPT
                        !.reconnect = @ \/ reconnectScheduled(reconnectAttempts)]
  /\ lastClose' = <<[attempts |-> reconnectAttempts,
                     scheduled |-> reconnectScheduled(reconnectAttempts)]>>
  /\ UNCHANGED <<aggVars, farmVars, dbVars, emitted, classifiedLog, connVars, urgencyVars, callVars>>

\* The connection attempt fails: 'error', then 'close'
LinkFail ==
  /\ optionsWS # <<>>
  /\ optionsWS[1].readyState = "CONNECTING"
  /\ clientStats.errors < MaxErrors
  /\ linkClosed(TRUE)
  /\ UNCHANGED clientClosed

\* An open session drops, with or without an 'error' event before the 'close';
\* a session that close() is closing gets its 'close' event
LinkClose(withError) ==
  /\ optionsWS # <<>>
  /\ optionsWS[1].readyState \in {"OPEN", "CLOSING"}
  /\ withError => clientStats.errors < MaxErrors
  /\ linkClosed(withError)
  /\ UNCHANGED clientClosed

\* ws.close(): a socket that is connecting or open starts closing and its 'close'
\* event follows; a closed one stays as it is
wsClose(ws) ==
  IF ws.readyState \in {"CONNECTING", "OPEN"} THEN [ws EXCEPT !.readyState = "CLOSING"] ELSE ws

\* MassiveWebSocketClient.close(), called once on a client that has connected:
\* this.optionsWS.close(), then this.pool.end().  No timer is cleared.
LinkShutdown ==
  /\ optionsWS # <<>>
  /\ ~clientClosed
  /\ clientClosed' = TRUE
  /\ optionsWS' = <<wsClose(optionsWS[1])>>
  /\ UNCHANGED <<coreVars, connVars, urgencyVars, callVars, isAuthenticated, connected,
                 reconnectAttempts, clientTimers, lastClose>>

NextLink ==
  \/ LinkConnect
  \/ LinkOpen
  \/ LinkAuthTimer
  \/ LinkFail
  \/ \E withError \in BOOLEAN : LinkClose(withError)
  \/ LinkReconnectTimer
  \/ LinkShutdown

SpecLink == Init /\ [][NextLink]_vars

\* Node runs every timer that is due: the callbacks of authenticate() and of
\* reconnect() fire once set
SpecLinkFair ==
  /\ SpecLink
  /\ WF_vars(LinkAuthTimer)
  /\ WF_vars(LinkReconnectTimer)

\* the frame that subscribes T.* has gone out on the current socket
TradesSubscribed ==
  /\ optionsWS # <<>>
  /\ \E i \in 1..Len(optionsWS[1].sent) : optionsWS[1].sent[i] = SubscribeFrame("T.*")

\* the current socket was made by a reconnect and is open
ReopenedSession ==
  /\ optionsWS # <<>>
  /\ optionsWS[1].reopened
  /\ optionsWS[1].readyState = "OPEN"

staticConnectionCount == 1
dynamicConnectionCount == 2
maxQuotesPerConnection == 1

\* this.maxConnections: the constructor's 10 = 3 + 7
maxConnections == staticConnectionCount + dynamicConnectionCount

\* Bounds on the runs of rebalanceSubscriptions and on the sessions that drop
\* before close() is called
MaxRebalances == 2
MaxDrops == 1

ConnIds == 0..(maxConnections - 1)

\* The connection object of createConnections.  authTimer: the setTimeout of
\* authenticate(connection) is pending; marked: the flag authenticated has been
\* set at least once.
newConnection(i) ==
  [id |-> i, ws |-> newWebSocket(FALSE), authenticated |-> FALSE, subscriptions |-> {},
   type |-> IF i < staticConnectionCount THEN "static" ELSE "dynamic",
   authTimer |-> FALSE, marked |-> FALSE]

\* MassiveConnectionFarm.subscribe(connection, channel)
subscribe(connection, channel) ==
  IF ~connection.authenticated THEN connection
  ELSE [connection EXCEPT !.ws = wsSend(@, SubscribeFrame(channel)),
                          !.subscriptions = @ \cup {channel}]

\* MassiveConnectionFarm.unsubscribe(connection, channel)
unsubscribe(connection, channel) ==
  [connection EXCEPT !.ws = wsSend(@, UnsubscribeFrame(channel)),
                     !.subscriptions = @ \ {channel}]

\* `Q.${contract}`
QuoteChannel(contract) == "Q." \o contract

\* Array.prototype.slice(from, to) on 0-based positions
Slice(s, from, to) ==
  IF from >= Len(s) \/ to <= from THEN <<>>
  ELSE SubSeq(s, from + 1, IF to > Len(s) THEN Len(s) ELSE to)

\* Math.ceil(n / d)
CeilDiv(n, d) == (n + d - 1) \div d

\* updateConnectionSubscriptions, first loop: the contracts of currentSubs that
\* are not wanted any more, in the order the Set holds them
staleContracts(currentSubs, newContracts) ==
  SeqFilter(currentSubs, LAMBDA c : c \notin SeqRange(newContracts))

\* updateConnectionSubscriptions, second loop: the wanted contracts that
\* currentSubs does not hold
freshContracts(currentSubs, newContracts) ==
  SeqFilter(newContracts, LAMBDA c : c \notin SeqRange(currentSubs))

\* this.unsubscribe(connection, `Q.${sub}`) for each stale contract
unsubscribeEach(connection, contracts) ==
  LET U[k \in 0..Len(contracts)] ==
        IF k = 0 THEN connection ELSE unsubscribe(U[k - 1], QuoteChannel(contracts[k]))
  IN U[Len(contracts)]

\* this.subscribe(connection, `Q.${contract}`) for each fresh contract
subscribeEach(connection, contracts) ==
  LET S[k \in 0..Len(contracts)] ==
        IF k = 0 THEN connection ELSE subscribe(S[k - 1], QuoteChannel(contracts[k]))
  IN S[Len(contracts)]

\* MassiveConnectionFarm.updateConnectionSubscriptions(connection, newContracts):
\* the connection, its entry of subscribedQuotes (currentSubs.add runs whether or
\* not subscribe sent anything) and the change of the subscription counter
updateConnectionSubscriptions(connection, currentSubs, newContracts) ==
  [connection |->
     subscribeEach(unsubscribeEach(connection, staleContracts(currentSubs, newContracts)),
                   freshContracts(currentSubs, newContracts)),
   currentSubs |->
     SeqFilter(currentSubs, LAMBDA c : c \in SeqRange(newContracts))
       \o freshContracts(currentSubs, newContracts),
   delta |-> Len(freshContracts(currentSubs, newContracts))
               - Len(staleContracts(currentSubs, newContracts))]

\* contracts.slice(startIdx, endIdx) of the i-th connection of a tier of count
connContracts(contracts, i, count) ==
  Slice(contracts, i * CeilDiv(Len(contracts), count),
        i * CeilDiv(Len(contracts), count) + CeilDiv(Len(contracts), count))

\* The loop of updateStaticSubscriptions / updateDynamicSubscriptions over the
\* connections first .. first + count - 1.  r = [connections, subscribedQuotes, stats].
updateTier(r, contracts, first, count, counter) ==
  LET T[k \in 0..count] ==
        IF k = 0 THEN r
        ELSE [connections |->
                [T[k - 1].connections EXCEPT ![first + k - 1] =
                   updateConnectionSubscriptions(
                     @, T[k - 1].subscribedQuotes[first + k - 1],
                     connContracts(contracts, k - 1, count)).connection],
              subscribedQuotes |->
                [T[k - 1].subscribedQuotes EXCEPT ![first + k - 1] =
                   updateConnectionSubscriptions(
                     T[k - 1].connections[first + k - 1], @,
                     connContracts(contracts, k - 1, count)).currentSubs],
              stats |->
                [T[k - 1].stats EXCEPT ![counter] = @ +
                   updateConnectionSubscriptions(
                     T[k - 1].connections[first + k - 1],
                     T[k - 1].subscribedQuotes[first + k - 1],
                     connContracts(contracts, k - 1, count)).delta]]
  IN T[count]

\* MassiveConnectionFarm.updateStaticSubscriptions(contracts)
updateStaticSubscriptions(r, contracts) ==
  updateTier(r, contracts, 0, staticConnectionCount, "staticSubscriptions")

\* MassiveConnectionFarm.updateDynamicSubscriptions(contracts)
updateDynamicSubscriptions(r, contracts) ==
  updateTier(r, contracts, staticConnectionCount, dynamicConnectionCount,
             "dynamicSubscriptions")

\* The sequences that list the members of S once each
Orderings(S) ==
  {s \in [1..Cardinality(S) -> S] : \A i, j \in 1..Cardinality(S) : i # j => s[i] # s[j]}

\* Array.from(contractVolume.entries()).filter(not static).sort((a, b) => b[1] - a[1]):
\* the contracts by falling volume.  Contracts of equal volume keep the order in
\* which the Map first saw them; the model admits each of their orders.
rankedByVolume(volume, static) ==
  {s \in Orderings((DOMAIN volume) \ static) :
     \A i, j \in 1..Len(s) : i < j => volume[s[i]] >= volume[s[j]]}

topDynamicUncut(ranked) == ranked

\* .slice(0, dynamicSlots), dynamicSlots = dynamicConnectionCount * maxQuotesPerConnection
topDynamic(ranked) == Slice(ranked, 0, dynamicConnectionCount * maxQuotesPerConnection)

\* staticContractsArray.slice(0, staticSlots)
topStatic(staticContractsArray) ==
  Slice(staticContractsArray, 0, staticConnectionCount * maxQuotesPerConnection)

\* MassiveConnectionFarm.rebalanceSubscriptions().  staticContractsArray is
\* Array.from(this.staticContracts), in an order of the model's choosing.
rebalanceSubscriptions(r, staticContractsArray, ranked) ==
  updateDynamicSubscriptions(updateStaticSubscriptions(r, topStatic(staticContractsArray)),
                             topDynamic(ranked))

\* The session state read from and written back to the variables
connState ==
  [connections |-> connections, subscribedQuotes |-> subscribedQuotes, stats |-> subStats]

connCommit(r) ==
  /\ connections' = r.connections
  /\ subscribedQuotes' = r.subscribedQuotes
  /\ subStats' = r.stats

\* initialize() up to `await this.waitForAuthentication()`: loadTickers and
\* createConnections, which opens maxConnections sockets
FarmInitialize ==
  /\ initPc = "constructed"
  /\ initPc' = "waitForAuthentication"
  /\ connections' = [i \in ConnIds |-> newConnection(i)]
  /\ subscribedQuotes' = [i \in ConnIds |-> <<>>]
  /\ UNCHANGED <<coreVars, linkVars, urgencyVars, callVars, subStats, rebalanceTimeout,
                 rebalanceInterval, farmClosed, rebalances>>

\* MassiveConnectionFarm.authenticate(connection): the auth frame goes out and
\* the 1000 ms timer is set
authenticate(connection) ==
  [connection EXCEPT !.ws = wsSend(@, AuthFrame), !.authTimer = TRUE]

\* 'open' of connection i: stats.connectionsActive++, authenticate(connection)
ConnOpen(i) ==
  /\ initPc # "constructed"
  /\ connections[i].ws.readyState = "CONNECTING"
  /\ connections' = [connections EXCEPT
                       ![i] = authenticate([@ EXCEPT !.ws.readyState = "OPEN"])]
  /\ subStats' = [subStats EXCEPT !.connectionsActive = @ + 1]
  /\ UNCHANGED <<coreVars, linkVars, urgencyVars, callVars, initPc, subscribedQuotes, rebalanceTimeout,
                 rebalanceInterval, farmClosed, rebalances>>

\* The timer of authenticate(connection) fires: connection.authenticated = true,
\* whatever the server answered and whatever has become of the socket
ConnAuthTimer(i) ==
  /\ initPc # "constructed"
  /\ connections[i].authTimer
  /\ connections' = [connections EXCEPT ![i].authenticated = TRUE, ![i].marked = TRUE,
                                        ![i].authTimer = FALSE]
  /\ UNCHANGED <<coreVars, linkVars, urgencyVars, callVars, initPc, subscribedQuotes, subStats,
                 rebalanceTimeout, rebalanceInterval, farmClosed, rebalances>>

\* sessions that have closed
closedConns == {i \in DOMAIN connections : connections[i].ws.readyState = "CLOSED"}

\* 'close' of connection i: stats.connectionsActive--, connection.authenticated =
\* false, and nothing else ("TODO: Implement reconnection logic")
connClosed(i) ==
  /\ connections' = [connections EXCEPT ![i].ws.readyState = "CLOSED",
                                        ![i].authenticated = FALSE]
  /\ subStats' = [subStats EXCEPT !.connectionsActive = @ - 1]
  /\ UNCHANGED <<coreVars, linkVars, urgencyVars, callVars, initPc, subscribedQuotes, rebalanceTimeout,
                 rebalanceInterval, farmClosed, rebalances>>

\* The socket of connection i never opens: 'error' (logged), then 'close'
ConnFail(i) ==
  /\ initPc # "constructed"
  /\ connections[i].ws.readyState = "CONNECTING"
  /\ Cardinality(closedConns) < MaxDrops
  /\ connClosed(i)

\* An open session is dropped, or a socket that close() has shut finishes closing
ConnClose(i) ==
  /\ initPc # "constructed"
  /\ \/ connections[i].ws.readyState = "CLOSING"
     \/ /\ connections[i].ws.readyState = "OPEN"
        /\ Cardinality(closedConns) < MaxDrops
  /\ connClosed(i)

allAuthenticatedSome(conns) == \E i \in DOMAIN conns : conns[i].authenticated

\* waitForAuthentication: this.connections.every(conn => conn.authenticated)
allAuthenticated(conns) == \A i \in DOMAIN conns : conns[i].authenticated

\* A poll of waitForAuthentication finds every connection authenticated and
\* initialize() runs on: subscribeStaticTiers (T.* on connection 0, the static
\* counter reset), startVolumeTracking, startRebalancing (the first timeout),
\* startHealthMonitoring (logging only)
FarmAuthenticated ==
  /\ initPc = "waitForAuthentication"
  /\ allAuthenticated(connections)
  /\ initPc' = "initialized"
  /\ connections' = [connections EXCEPT ![0] = subscribe(@, "T.*")]
  /\ subStats' = [subStats EXCEPT !.staticSubscriptions = 0]
  /\ rebalanceTimeout' = TRUE
  /\ UNCHANGED <<coreVars, linkVars, urgencyVars, callVars, subscribedQuotes, rebalanceInterval,
                 farmClosed, rebalances>>

\* One run of rebalanceSubscriptions on the contracts seen so far
rebalanced ==
  /\ rebalances < MaxRebalances
  /\ \E staticContractsArray \in Orderings(staticContracts),
        ranked \in rankedByVolume(contractVolume, staticContracts) :
       connCommit(rebalanceSubscriptions(connState, staticContractsArray, ranked))
  /\ rebalances' = rebalances + 1

\* The timeout of startRebalancing fires: the first rebalance, and the interval
\* is created and kept in this.rebalanceInterval
RebalanceTimeout ==
  /\ rebalanceTimeout
  /\ rebalanced
  /\ rebalanceTimeout' = FALSE
  /\ rebalanceInterval' = "set"
  /\ UNCHANGED <<coreVars, linkVars, urgencyVars, callVars, initPc, farmClosed>>

\* The interval of startRebalancing fires
RebalanceInterval ==
  /\ rebalanceInterval = "set"
  /\ rebalanced
  /\ UNCHANGED <<coreVars, linkVars, urgencyVars, callVars, initPc, farmClosed, rebalanceTimeout,
                 rebalanceInterval>>


\* MassiveConnectionFarm.close(), called on a farm whose initialize() has
\* completed: clearInterval if this.rebalanceInterval is set, conn.ws.close() on
\* every connection (pool.end() is not followed here)
FarmClose ==
  /\ initPc = "initialized"
  /\ ~farmClosed
  /\ farmClosed' = TRUE
  /\ rebalanceInterval' = IF rebalanceInterval = "set" THEN "cleared" ELSE rebalanceInterval
  /\ connections' = [i \in DOMAIN connections |->
                       [connections[i] EXCEPT !.ws = wsClose(@)]]
  /\ UNCHANGED <<coreVars, linkVars, urgencyVars, callVars, initPc, subscribedQuotes, subStats,
                 rebalanceTimeout, rebalances>>

\* Trades on the contracts the sessions rebalance over; none reaches the store threshold
TradeP1 == [ev |-> "T", sym |-> SymAMDPut, p |-> 300, s |-> 50, x |-> 65, c |-> <<202>>,
            t |-> 1000, q |-> 1]
TradeN2 == [ev |-> "T", sym |-> SymNVDA, p |-> 300, s |-> 10, x |-> 65, c |-> <<202>>,
            t |-> 1000, q |-> 2]
SessionFrames == { <<TradeA2>>, <<TradeP1>>, <<TradeBad>>, <<TradeN2>> }

\* A frame of trades arrives on connection 0, which holds T.*
SessionTrade(frame, dateNow) ==
  /\ initPc = "initialized"
  /\ connections[0].ws.readyState = "OPEN"
  /\ "T.*" \in connections[0].subscriptions
  /\ FarmMessage(frame, dateNow)

NextSessions ==
  \/ FarmInitialize
  \/ \E i \in ConnIds : ConnOpen(i)
  \/ \E i \in ConnIds : ConnAuthTimer(i)
  \/ \E i \in ConnIds : ConnFail(i)
  \/ \E i \in ConnIds : ConnClose(i)
  \/ FarmAuthenticated
  \/ \E frame \in SessionFrames, dateNow \in DateNows : SessionTrade(frame, dateNow)
  \/ RebalanceTimeout
  \/ RebalanceInterval
  \/ FarmClose

SpecSessions == Init /\ [][NextSessions]_vars

\* Node runs every timer that is due: the callbacks of authenticate(), the poll of
\* waitForAuthentication and the timers of startRebalancing fire once they can
SpecSessionsFair ==
  /\ SpecSessions
  /\ \A i \in ConnIds : WF_vars(ConnAuthTimer(i))
  /\ WF_vars(FarmAuthenticated)
  /\ WF_vars(RebalanceTimeout)
  /\ WF_vars(RebalanceInterval)

\* number of channels the sessions hold in total
TotalChannels ==
  LET N[k \in 0..maxConnections] ==
        IF k = 0 THEN 0 ELSE N[k - 1] + Cardinality(connections[k - 1].subscriptions)
  IN IF connections = <<>> THEN 0 ELSE N[maxConnections]

\* C11 as stated: every session's set of subscribed channels has at most Q_max
\* members, and the sessions hold at most N * Q_max channels in total.
C11_ChannelsBounded ==
  /\ \A i \in DOMAIN connections :
       Cardinality(connections[i].subscriptions) <= maxQuotesPerConnection
  /\ TotalChannels <= maxConnections * maxQuotesPerConnection

\* C11, amended: every session holds at most Q_max quote channels (Q.*); the
\* trade channel T.* is held by session 0 only and is not counted in the quota,
\* so the sessions hold at most N * Q_max + 1 channels in total.
C11_QuotesBounded ==
  /\ \A i \in DOMAIN connections :
       /\ Cardinality(connections[i].subscriptions \ {"T.*"}) <= maxQuotesPerConnection
       /\ "T.*" \in connections[i].subscriptions => i = 0
  /\ TotalChannels <= maxConnections * maxQuotesPerConnection + 1

\* After a rebalance over as many contracts as the sessions have slots, session 0
\* holds T.* and a full quota of quote channels, and each dynamic session holds
\* a full quota
C11_Witness ==
  /\ rebalances > 0
  /\ Cardinality((DOMAIN contractVolume) \ staticContracts)
       >= dynamicConnectionCount * maxQuotesPerConnection
  /\ "T.*" \in connections[0].subscriptions
  /\ Cardinality(connections[0].subscriptions \ {"T.*"}) = maxQuotesPerConnection
  /\ \A i \in DOMAIN connections :
       connections[i].type = "dynamic" =>
         Cardinality(connections[i].subscriptions) = maxQuotesPerConnection

\* The contracts that are among the top S_dynamic * Q_max by accumulated size,
\* static contracts left out, however contracts of equal size are ordered
TopContracts ==
  {c \in (DOMAIN contractVolume) \ staticContracts :
     Cardinality({d \in ((DOMAIN contractVolume) \ staticContracts) \ {c} :
                    contractVolume[d] >= contractVolume[c]})
       < dynamicConnectionCount * maxQuotesPerConnection}

SubscribedOnDynamic(c) ==
  \E i \in DOMAIN connections :
    connections[i].type = "dynamic" /\ QuoteChannel(c) \in connections[i].subscriptions

\* C12: immediately after a rebalance, every contract among the top
\* S_dynamic * Q_max by accumulated traded size (static contracts excluded) is
\* subscribed on some dynamic session.  Rebalances after close() are left aside.
C12_TopSubscribed ==
  [][(rebalances' # rebalances /\ ~farmClosed)
       => \A c \in TopContracts' : SubscribedOnDynamic(c)']_vars

SessionClosed(i) == i \in DOMAIN connections /\ connections[i].ws.readyState = "CLOSED"

\* C13: when a session closes after fewer than MAX_RECONNECT_ATTEMPTS attempts, a
\* reconnect is scheduled; the farm counts no attempts, so a session of the farm
\* that the vendor dropped is connected again once the reconnect timer fires.
C13_ClosedSessionReconnects ==
  \A i \in ConnIds :
    (SessionClosed(i) /\ ~farmClosed) ~> (~SessionClosed(i) \/ farmClosed)

\* on this socket an auth frame went out before any subscribe frame
AuthBeforeSubscribe(ws) ==
  \A k \in 1..Len(ws.sent) :
    ws.sent[k].action = "subscribe" => \E j \in 1..(k - 1) : ws.sent[j] = AuthFrame

TradesFrameSent ==
  /\ connections # <<>>
  /\ \E k \in 1..Len(connections[0].ws.sent) :
       connections[0].ws.sent[k] = SubscribeFrame("T.*")

\* C15: during the farm's startup the T.* subscribe frame goes out on session 0
\* only after every session has been marked authenticated, and on each session
\* the auth frame goes out before any subscribe frame.
C15_StartupOrder ==
  /\ TradesFrameSent => \A i \in DOMAIN connections : connections[i].marked
  /\ \A i \in DOMAIN connections : AuthBeforeSubscribe(connections[i].ws)

\* T.* has gone out on session 0 and a quote subscription on a dynamic session
C15_Witness ==
  /\ TradesFrameSent
  /\ \E i \in DOMAIN connections :
       /\ connections[i].type = "dynamic"
       /\ \E k \in 1..Len(connections[i].ws.sent) :
            connections[i].ws.sent[k].action = "subscribe"

\* C16: once close() has been called no rebalance runs, whether close() comes
\* before the first rebalance or between two.
C16_NoRebalanceAfterClose == [][farmClosed => rebalances' = rebalances]_vars

\* C17: a session that does not authenticate (its socket errors or never opens)
\* is closed and re-opened, so that the startup barrier is passed and
\* initialize() completes.
C17_InitializeCompletes ==
  (initPc = "waitForAuthentication" /\ ~farmClosed)
    ~> (initPc = "initialized" \/ farmClosed)

\* ---------------------------------------------------------------- flow direction

\* const aggressiveCodes = [220, 229, 230, 233, 234] of isAggressiveTrade
aggressiveTradeCodes == {220, 229, 230, 233, 234}

\* MassiveWebSocketClient.isAggressiveTrade(conditions, aggregatorResult); an absent
\* conditions is <<>>
isAggressiveTrade(conditions, aggregatorResult) ==
  IF aggregatorResult.trade_type = "SWEEP" THEN TRUE
  ELSE IF \E i \in 1..Len(conditions) : conditions[i] \in aggressiveTradeCodes THEN TRUE
  ELSE IF aggregatorResult.trade_type = "BLOCK" THEN TRUE
  ELSE FALSE

calculateFlowDirectionAbove(contractType, tradeType, premium, isAggressive) ==
  IF contractType = "CALL"
       /\ (tradeType = "SWEEP" \/ (tradeType = "BLOCK" /\ premium >= 200000)
             \/ (isAggressive /\ premium > 100000))
  THEN "BULLISH"
  ELSE IF contractType = "PUT"
            /\ (tradeType = "SWEEP" \/ (tradeType = "BLOCK" /\ premium >= 200000)
                  \/ (isAggressive /\ premium > 100000))
  THEN "BEARISH"
  ELSE "NEUTRAL"

\* MassiveWebSocketClient.calculateFlowDirection(contractType, tradeType, premium,
\* isAggressive); premium in dollars
calculateFlowDirection(contractType, tradeType, premium, isAggressive) ==
  IF contractType = "CALL"
       /\ (tradeType = "SWEEP" \/ (tradeType = "BLOCK" /\ premium >= 200000)
             \/ (isAggressive /\ premium >= 100000))
  THEN "BULLISH"
  ELSE IF contractType = "PUT"
            /\ (tradeType = "SWEEP" \/ (tradeType = "BLOCK" /\ premium >= 200000)
                  \/ (isAggressive /\ premium >= 100000))
  THEN "BEARISH"
  ELSE "NEUTRAL"

\* handleTrade, lines 144 and 163-169: the flag and the direction of one trade.
\* trade.p is in cents, so trade.p * trade.s * 100 dollars is trade.p * trade.s.
flowDirectionOf(contractType, trade, aggregatorResult, isAggressive) ==
  [is_aggressive |-> isAggressive,
   flow_direction |-> calculateFlowDirection(contractType, aggregatorResult.trade_type,
                                             trade.p * trade.s, isAggressive)]

\* Trades at $1.00 whose sizes put the premium on and next to 100k and 200k
FlowTrades ==
  { [p |-> 100, s |-> s, c |-> c] :
      s \in {500, 999, 1000, 1001, 1999, 2000, 2001},
      c \in {<<>>, <<202>>, <<220>>, <<209, 234>>} }

FlowInputs ==
  { <<[contractType |-> k, trade |-> t, aggregatorResult |-> a]>> :
      k \in {"CALL", "PUT"}, t \in FlowTrades,
      a \in {v \in UrgencyVerdicts : v.sweep_exchange_count \in {0, 2}} }

\* Lines 163-169 of handleTrade on the arguments held in callIn
FlowDirection ==
  /\ callIn # <<>>
  /\ callOut = <<>>
  /\ callOut' = <<flowDirectionOf(callIn[1].contractType, callIn[1].trade,
                                  callIn[1].aggregatorResult,
                                  isAggressiveTrade(callIn[1].trade.c,
                                                    callIn[1].aggregatorResult))>>
  /\ UNCHANGED <<coreVars, connVars, linkVars, urgencyVars, callIn>>

InitFlowSpec ==
  /\ InitAgg /\ InitClient /\ InitFarm /\ InitDb({"schema.sql"})
  /\ InitConn /\ InitLink /\ InitUrgency({<<>>}) /\ InitCall(FlowInputs)
  /\ emitted = <<>>
  /\ classifiedLog = <<>>

NextFlow == FlowDirection

SpecFlow == InitFlowSpec /\ [][NextFlow]_vars

\* The conditions the specification gives for a direction, on either side
C21_Directional(in, out) ==
  \/ in.aggregatorResult.trade_type = "SWEEP"
  \/ in.aggregatorResult.trade_type = "BLOCK" /\ in.trade.p * in.trade.s >= 200000
  \/ out.is_aggressive /\ in.trade.p * in.trade.s >= 100000

C21_Swap(x) ==
  CASE x = "CALL" -> "PUT" [] x = "PUT" -> "CALL"
    [] x = "BULLISH" -> "BEARISH" [] x = "BEARISH" -> "BULLISH" [] OTHER -> x

\* C21: flow_direction is BULLISH exactly when the contract is a CALL and the trade
\* is a SWEEP, or a BLOCK with premium >= 200k, or aggressive with premium >= 100k;
\* BEARISH under the same conditions for a PUT; otherwise NEUTRAL.  The same trade
\* with CALL and PUT exchanged gets BULLISH and BEARISH exchanged and keeps NEUTRAL.
C21_FlowDirection ==
  callOut # <<>> =>
    /\ callOut[1].flow_direction = "BULLISH"
         <=> (callIn[1].contractType = "CALL" /\ C21_Directional(callIn[1], callOut[1]))
    /\ callOut[1].flow_direction = "BEARISH"
         <=> (callIn[1].contractType = "PUT" /\ C21_Directional(callIn[1], callOut[1]))
    /\ callOut[1].flow_direction \in {"BULLISH", "BEARISH", "NEUTRAL"}
    /\ calculateFlowDirection(C21_Swap(callIn[1].contractType),
                              callIn[1].aggregatorResult.trade_type,
                              callIn[1].trade.p * callIn[1].trade.s,
                              callOut[1].is_aggressive)
         = C21_Swap(callOut[1].flow_direction)

\* A CALL print of exactly $100,000 carrying code 220, not a sweep and not a block,
\* is aggressive and BULLISH
C21_Witness ==
  /\ callOut # <<>>
  /\ callIn[1].contractType = "CALL"
  /\ callIn[1].aggregatorResult.trade_type = "FLOW"
  /\ callIn[1].trade = [p |-> 100, s |-> 1000, c |-> <<220>>]
  /\ callOut[1] = [is_aggressive |-> TRUE, flow_direction |-> "BULLISH"]

\* ---------------------------------------------------------------- malformed messages

\* The symbol is O:<TICKER><date><C|P><STRIKE8> and nothing else
WellFormedSymbol(sym) ==
  /\ matchAt(Chars(sym), 1).ok
  /\ Len(Chars(sym)) = 2 + Len(matchAt(Chars(sym), 1).ticker)
                         + Len(matchAt(Chars(sym), 1).dateStr) + 1 + 8

\* C22: a trade message whose symbol does not parse is dropped: it is never handed
\* to storeTrade (neither awaited nor logged by the database) and never emitted
\* on flow:all.
C22_MalformedDropped ==
  /\ \A i \in 1..Len(emitted) : WellFormedSymbol(emitted[i].payload.contract_symbol)
  /\ \A h \in handlers : WellFormedSymbol(h.tradeData.contract_symbol)
  /\ \A i \in 1..Len(dbLog) : WellFormedSymbol(dbLog[i].contract_symbol)

\* ---------------------------------------------------------------- symbol round trip

\* n in decimal, left-padded with zeros to w characters
RECURSIVE PadDigits(_, _)
PadDigits(n, w) ==
  IF w = 0 THEN <<>> ELSE Append(PadDigits(n \div 10, w - 1), DigitChar(n % 10))

\* O:<TICKER><date><C|P><STRIKE8>, the date written as the year after 2000 in
\* dateWidth - 4 digits, then month and day; the strike in thousandths, 8 digits
encodeContract(c, dateWidth) ==
  <<"O", ":">> \o c.ticker
    \o PadDigits(c.expiration.year - 2000, dateWidth - 4)
    \o c.expiration.month \o c.expiration.day
    \o <<IF c.type = "CALL" THEN "C" ELSE "P">>
    \o PadDigits(c.strike, 8)

\* Contracts with an alphabetic ticker and a strike that is a whole number of
\* thousandths, each with the width of its date
ContractTuples ==
  { [contract |-> [ticker |-> k, expiration |-> [year |-> d.year, month |-> md[1],
                                                  day |-> md[2]],
                   type |-> side, strike |-> strike],
     dateWidth |-> d.width] :
      k \in { <<"A">>, <<"A", "M", "D">>, <<"S", "P", "O", "T">> },
      d \in { [year |-> 2000, width |-> 6], [year |-> 2025, width |-> 6],
              [year |-> 2099, width |-> 6], [year |-> 2025, width |-> 7],
              [year |-> 2125, width |-> 7] },
      md \in { <<<<"1", "2">>, <<"1", "9">>>>, <<<<"0", "1">>, <<"0", "2">>>> },
      side \in {"CALL", "PUT"},
      strike \in {1, 155000, 12345678} }

\* Symbols that are not of the form: nothing after the ticker, cut off after the
\* date, a side that is neither C nor P, a strike of seven digits, a lower-case
\* ticker, no ticker, a strike of nine digits
RawSymbols ==
  { Chars(SymBad), Chars(SymCut), Chars(SymStock),
    <<"O", ":", "A", "M", "D", "2", "5", "1", "2", "1", "9", "X",
      "0", "0", "1", "5", "5", "0", "0", "0">>,
    <<"O", ":", "A", "M", "D", "2", "5", "1", "2", "1", "9", "C",
      "0", "0", "1", "5", "5", "0", "0">>,
    <<"O", ":", "a", "m", "d", "2", "5", "1", "2", "1", "9", "C",
      "0", "0", "1", "5", "5", "0", "0", "0">>,
    <<"O", ":", "2", "5", "1", "2", "1", "9", "C",
      "0", "0", "1", "5", "5", "0", "0", "0">>,
    <<"O", ":", "A", "M", "D", "2", "5", "1", "2", "1", "9", "C",
      "0", "0", "1", "5", "5", "0", "0", "0", "1">> }

ParseInputs ==
  { <<[kind |-> "contract", contract |-> c.contract, dateWidth |-> c.dateWidth]>> :
      c \in ContractTuples }
  \cup { <<[kind |-> "symbol", symbol |-> cs]>> : cs \in RawSymbols }

\* What the two parsers return for the characters cs
parsedBy(cs) ==
  [client |-> parseSymbolChars(cs), farm |-> parseContractChars(cs, cs)]

\* A contract is encoded and the symbol parsed by parseContractSymbol and by
\* parseContract
ParseEncoded ==
  /\ callIn # <<>>
  /\ callOut = <<>>
  /\ callIn[1].kind = "contract"
  /\ callOut' = <<parsedBy(encodeContract(callIn[1].contract, callIn[1].dateWidth))>>
  /\ UNCHANGED <<coreVars, connVars, linkVars, urgencyVars, callIn>>

\* A symbol as received is parsed by parseContractSymbol and by parseContract
ParseSymbol ==
  /\ callIn # <<>>
  /\ callOut = <<>>
  /\ callIn[1].kind = "symbol"
  /\ callOut' = <<parsedBy(callIn[1].symbol)>>
  /\ UNCHANGED <<coreVars, connVars, linkVars, urgencyVars, callIn>>

InitParseSpec ==
  /\ InitAgg /\ InitClient /\ InitFarm /\ InitDb({"schema.sql"})
  /\ InitConn /\ InitLink /\ InitUrgency({<<>>}) /\ InitCall(ParseInputs)
  /\ emitted = <<>>
  /\ classifiedLog = <<>>

NextParse == ParseEncoded \/ ParseSymbol

SpecParse == InitParseSpec /\ [][NextParse]_vars

\* The parser returned the contract c
C23_ClientYields(r, c) ==
  /\ r.ok
  /\ r.ticker = c.ticker /\ r.expiration = c.expiration
  /\ r.type = c.type /\ r.strike = c.strike
C23_FarmYields(r, c) ==
  /\ r.ok
  /\ r.ticker = c.ticker /\ r.expiration = c.expiration
  /\ r.contractType = c.type /\ r.strike = <<c.strike>>

\* C23: for every contract with an alphabetic ticker, a 6- or 7-digit date and a
\* strike that is a multiple of 0.001, parsing its encoding
\* O:<TICKER><date><C|P><STRIKE8> yields the contract again, with either parser;
\* a symbol that is not of that form is rejected by both.
C23_RoundTrip ==
  callOut # <<>> =>
    IF callIn[1].kind = "contract"
    THEN /\ C23_ClientYields(callOut[1].client, callIn[1].contract)
         /\ C23_FarmYields(callOut[1].farm, callIn[1].contract)
    ELSE ~callOut[1].client.ok /\ ~callOut[1].farm.ok

\* ---------------------------------------------------------------- timestamps

\* Math.floor(trade.t / 1000000): nanoseconds in a millisecond
nanosPerMilli == 1000000

\* Trade messages whose t is in nanoseconds, as the upstream sends it: prints on
\* two exchanges at 1 s, half a millisecond later, one millisecond later and
\* 750 ms later
IngressMsgs ==
  { [ev |-> "T", sym |-> SymAMD, p |-> 550, s |-> 40, x |-> x, c |-> <<>>, t |-> t, q |-> q] :
      x \in {65, 66},
      t \in {1000000000, 1000500000, 1001000000, 1750000000},
      q \in {1, 2} }

NextIngress ==
  \E m \in IngressMsgs, dateNow \in DateNows : ClientMessage(<<m>>, dateNow)

SpecIngress == Init /\ [][NextIngress]_vars

\* C24: the processed_at of every trade the aggregator holds, which it compares
\* with sweepWindow, blockIsolationWindow and bufferMaxAge and divides by 100 for
\* the sweep_id, is the upstream nanosecond timestamp converted to milliseconds.
C24_Milliseconds ==
  \A i \in 1..Len(tradeBuffer) :
    tradeBuffer[i].processedAt = tradeBuffer[i].timestamp \div nanosPerMilli

\* ---------------------------------------------------------------- the sweep rule

\* Prints on one contract around every threshold of detectSweep: sizes that add up
\* to less than, exactly and more than the minimum; prices 0.10 and 0.11 apart;
\* prices whose mean is below 5.00; and a print on another contract
SweepShapes ==
  { [sym |-> SymAMD,  p |-> 550, s |-> 5,   x |-> 65, c |-> <<>>],
    [sym |-> SymAMD,  p |-> 550, s |-> 15,  x |-> 66, c |-> <<>>],
    [sym |-> SymAMD,  p |-> 560, s |-> 40,  x |-> 65, c |-> <<>>],
    [sym |-> SymAMD,  p |-> 561, s |-> 40,  x |-> 66, c |-> <<>>],
    [sym |-> SymAMD,  p |-> 490, s |-> 5,   x |-> 65, c |-> <<>>],
    [sym |-> SymAMD,  p |-> 500, s |-> 5,   x |-> 66, c |-> <<>>],
    [sym |-> SymNVDA, p |-> 550, s |-> 40,  x |-> 302, c |-> <<>>] }

\* Values of the timestamp: two 750 apart, two 751 apart
SweepTimes == {1000, 1750, 1751}

NextSweep ==
  \E shape \in SweepShapes, t \in SweepTimes, dateNow \in DateNows :
    ProcessTrade(aggregatorInput(Spread(shape, [t |-> t])), dateNow)

SpecSweep == Init /\ [][NextSweep]_vars

\* The cluster of the trade just processed: the buffered trades on its contract
\* whose processedAt is within sweepWindow of its own, and the trade itself
C25_Cluster ==
  { i \in 1..Len(tradeBuffer) :
      /\ tradeBuffer[i].contract_symbol = LastEntry.contract_symbol
      /\ Abs(tradeBuffer[i].processedAt - LastEntry.processedAt) <= sweepWindow }

\* Sum of the sizes, and of the prices, of the buffer entries with index in S
C25_TotalSize(S) ==
  LET G[i \in 0..Len(tradeBuffer)] ==
        IF i = 0 THEN 0 ELSE G[i - 1] + (IF i \in S THEN tradeBuffer[i].size ELSE 0)
  IN G[Len(tradeBuffer)]
C25_PriceSum(S) ==
  LET G[i \in 0..Len(tradeBuffer)] ==
        IF i = 0 THEN 0 ELSE G[i - 1] + (IF i \in S THEN tradeBuffer[i].price ELSE 0)
  IN G[Len(tradeBuffer)]

\* MIN_CONTRACTS of a cluster: sweepMinTotal when its mean price is above 5.00,
\* half of it (rounded down) otherwise
C25_MinContracts(S) ==
  IF C25_PriceSum(S) > 500 * Cardinality(S) THEN sweepMinTotal ELSE sweepMinTotal \div 2

\* The admission rule on the cluster S
C25_Admits(S) ==
  /\ Cardinality(S) >= 2
  /\ \A i, j \in S : tradeBuffer[i].price - tradeBuffer[j].price <= sweepPriceDelta
  /\ C25_TotalSize(S) >= C25_MinContracts(S)
  /\ \/ Cardinality({tradeBuffer[i].exchange_id : i \in S}) >= sweepMinExchanges
     \/ Cardinality(S) >= 3

BlockShapes ==
  { [sym |-> SymAMD,  p |-> 550, s |-> 800, x |-> 65, c |-> <<>>],
    [sym |-> SymAMD,  p |-> 550, s |-> 500, x |-> 4,  c |-> <<>>],
    [sym |-> SymAMD,  p |-> 550, s |-> 499, x |-> 4,  c |-> <<>>],
    [sym |-> SymAMD,  p |-> 550, s |-> 40,  x |-> 65, c |-> <<229>>],
    [sym |-> SymAMD,  p |-> 550, s |-> 40,  x |-> 65, c |-> <<202>>],
    [sym |-> SymAMD,  p |-> 550, s |-> 499, x |-> 66, c |-> <<202, 236>>],
    [sym |-> SymNVDA, p |-> 300, s |-> 800, x |-> 65, c |-> <<>>] }

\* Values of the timestamp: two 100 apart, two 101 apart
BlockTimes == {1000, 1100, 1101}

NextBlock ==
  \E shape \in BlockShapes, t \in BlockTimes, dateNow \in DateNows :
    ProcessTrade(aggregatorInput(Spread(shape, [t |-> t])), dateNow)

SpecBlock == Init /\ [][NextBlock]_vars

\* The three reasons of the specification, for the trade just processed
C26_LargeIsolated ==
  /\ LastEntry.size >= blockMinSize
  /\ \A i \in 1..(Len(tradeBuffer) - 1) :
       tradeBuffer[i].contract_symbol = LastEntry.contract_symbol
         => Abs(tradeBuffer[i].processedAt - LastEntry.processedAt) > blockIsolationWindow
C26_BlockCode == SeqRange(LastEntry.conditions) \cap {229, 230, 233, 234, 235, 236} # {}
C26_DarkVenue == LastEntry.exchange_id \in {4, 21, 66} /\ LastEntry.size >= blockMinSize

C26_Reason ==
  IF C26_LargeIsolated THEN "LARGE_ISOLATED"
  ELSE IF C26_BlockCode THEN "OPRA_BLOCK_CODE"
  ELSE IF C26_DarkVenue THEN "DARK_VENUE"
  ELSE "null"

RECURSIVE dblPow2(_)
dblPow2(n) == IF n = 0 THEN 1 ELSE 2 * dblPow2(n - 1)

\* 2^k modulo m
RECURSIVE dblPow2Mod(_, _)
dblPow2Mod(k, m) == IF k = 0 THEN 1 % m ELSE (2 * dblPow2Mod(k - 1, m)) % m

\* The exponent k of the doubles around h / 200, h > 0: 2^(52-k) <= h / 200 < 2^(53-k)
RECURSIVE dblExpFrom(_, _)
dblExpFrom(h, k) ==
  IF k <= 52
  THEN IF 200 * dblPow2(52 - k) <= h THEN k ELSE dblExpFrom(h, k + 1)
  ELSE IF 200 <= h * dblPow2(k - 52) THEN k ELSE dblExpFrom(h, k + 1)

\* The exponent of the doubles around v, v.h > 0: one more when v lies just below
\* the power of two h / 200
dblExp(v) ==
  LET k == dblExpFrom(v.h, 43)
      atPower == IF k <= 52 THEN v.h = 200 * dblPow2(52 - k)
                 ELSE 200 = v.h * dblPow2(k - 52)
  IN IF atPower /\ v.r < 0 THEN k + 1 ELSE k

\* v, v.h > 0, rounded to the nearest multiple of 2^-k
dblRoundAt(v, k) ==
  LET step == dblPow2(64 - k)
      grid == 200 * step
      pos == ((v.h % 200) * dblPow2Mod(k, 200)) % 200
      pos2 == ((v.h % 400) * dblPow2Mod(k, 400)) % 400
      off == pos * step + v.r
      low == (off \div grid) * grid
      lowOdd == ((pos2 - pos) \div 200 + off \div grid) % 2 = 1
      up == \/ 2 * (off - low) > grid
            \/ 2 * (off - low) = grid /\ lowOdd
  IN [h |-> v.h, r |-> (IF up THEN low + grid ELSE low) - pos * step]

\* The double nearest to the exact value v
dblRound(v) ==
  IF v.h = 0 THEN v
  ELSE IF v.h < 0
  THEN LET m == dblRoundAt([h |-> 0 - v.h, r |-> 0 - v.r], dblExp([h |-> 0 - v.h, r |-> 0 - v.r]))
       IN [h |-> 0 - m.h, r |-> 0 - m.r]
  ELSE dblRoundAt(v, dblExp(v))

\* The Number a JSON decimal with two places parses to; cents is the value in cents
dblOfCents(cents) == dblRound([h |-> 2 * cents, r |-> 0])

\* x + y, x - y, x / 2, Math.abs(x), x < y, x <= y on Numbers
dblAdd(x, y) == dblRound([h |-> x.h + y.h, r |-> x.r + y.r])
dblSub(x, y) == dblRound([h |-> x.h - y.h, r |-> x.r - y.r])
dblHalf(x) == [h |-> x.h \div 2, r |-> x.r \div 2]
dblLess(x, y) == x.h < y.h \/ (x.h = y.h /\ x.r < y.r)
dblAbs(x) == IF dblLess(x, [h |-> 0, r |-> 0]) THEN [h |-> 0 - x.h, r |-> 0 - x.r] ELSE x
dblLessEq(x, y) == ~dblLess(y, x)

\* determineExecutionLevel from "const mid" on (part_005:276-291), on the Numbers
\* price, bid, ask with mid = (bid + ask) / 2 and tolerance = 0.01
executionLevelOf(price, bid, ask, mid, tolerance) ==
  IF dblLess(dblAdd(ask, tolerance), price) THEN "ABOVE_ASK"
  ELSE IF dblLessEq(dblAbs(dblSub(price, ask)), tolerance) THEN "AT_ASK"
  ELSE IF dblLessEq(dblAbs(dblSub(price, mid)), tolerance) THEN "MID"
  ELSE IF dblLessEq(dblAbs(dblSub(price, bid)), tolerance) THEN "AT_BID"
  ELSE IF dblLess(price, dblSub(bid, tolerance)) THEN "BELOW_BID"
  ELSE IF dblLess(mid, price) THEN "AT_ASK"
  ELSE IF dblLess(price, mid) THEN "AT_BID"
  ELSE "MID"

\* determineExecutionLevel(price, bid, ask) of part_005; the arguments are given
\* in cents, an absent argument as 0
determineExecutionLevel(price, bid, ask) ==
  IF price = 0 \/ bid = 0 \/ ask = 0 THEN "UNKNOWN"
  ELSE IF bid <= 0 \/ ask <= 0 \/ price <= 0 THEN "UNKNOWN"
  ELSE IF ask < bid THEN "UNKNOWN"
  ELSE executionLevelOf(dblOfCents(price), dblOfCents(bid), dblOfCents(ask),
                        dblHalf(dblAdd(dblOfCents(bid), dblOfCents(ask))),
                        dblOfCents(1))

\* Prices and quotes in cents, 0 for an absent or zero value: quotes 0.02 / 0.06,
\* 4.00 / 4.10, 5.40 / 5.50 and 8.10 / 8.25, crossed quotes, and prices from below
\* each bid to above each ask
LevelInputs ==
  { <<[price |-> p, bid |-> b, ask |-> a]>> :
      p \in (0..9) \cup (398..412) \cup (538..552) \cup (808..827),
      b \in {0, 2, 400, 540, 810},
      a \in {0, 6, 300, 410, 550, 825} }

\* One call of determineExecutionLevel on the arguments held in callIn
DetermineExecutionLevel ==
  /\ callIn # <<>>
  /\ callOut = <<>>
  /\ callOut' = <<determineExecutionLevel(callIn[1].price, callIn[1].bid, callIn[1].ask)>>
  /\ UNCHANGED <<coreVars, connVars, linkVars, urgencyVars, callIn>>

InitLevelSpec ==
  /\ InitAgg /\ InitClient /\ InitFarm /\ InitDb({"schema.sql"})
  /\ InitConn /\ InitLink /\ InitUrgency({<<>>}) /\ InitCall(LevelInputs)
  /\ emitted = <<>>
  /\ classifiedLog = <<>>

NextLevel == DetermineExecutionLevel

SpecLevel == InitLevelSpec /\ [][NextLevel]_vars

\* The level the specification gives, computed exactly in half-cents: price,
\* bid, ask in cents, mid = (bid + ask) / 2, tolerance one cent
C27_Level(price, bid, ask) ==
  IF bid <= 0 \/ ask <= 0 \/ ask < bid THEN "UNKNOWN"
  ELSE IF 2 * price > 2 * ask + 2 THEN "ABOVE_ASK"
  ELSE IF Abs(2 * price - 2 * ask) <= 2 THEN "AT_ASK"
  ELSE IF Abs(2 * price - (bid + ask)) <= 2 THEN "MID"
  ELSE IF Abs(2 * price - 2 * bid) <= 2 THEN "AT_BID"
  ELSE IF 2 * price < 2 * bid - 2 THEN "BELOW_BID"
  ELSE IF 2 * price > bid + ask THEN "AT_ASK"
  ELSE IF 2 * price < bid + ask THEN "AT_BID"
  ELSE "MID"

\* C27: determineExecutionLevel(price, bid, ask) returns the first match of
\* UNKNOWN for a missing or invalid quote (bid <= 0, ask <= 0, ask < bid),
\* ABOVE_ASK if price > ask + 0.01, AT_ASK if |price - ask| <= 0.01, MID if
\* |price - mid| <= 0.01, AT_BID if |price - bid| <= 0.01, BELOW_BID if
\* price < bid - 0.01, and otherwise AT_ASK above mid and AT_BID below it.
C27_ExecutionLevel ==
  callOut # <<>> =>
    callOut[1] = C27_Level(callIn[1].price, callIn[1].bid, callIn[1].ask)

\* ---------------------------------------------------------------- shutdown of the client

\* this step makes a new upstream socket: this.optionsWS = new WebSocket(...)
SocketOpened ==
  /\ optionsWS' # <<>>
  /\ optionsWS'[1].readyState = "CONNECTING"
  /\ optionsWS = <<>> \/ optionsWS[1].readyState # "CONNECTING"

\* C28: after MassiveWebSocketClient.close() has been called, no new upstream
\* WebSocket connection is opened: the 'close' event raised by the shutdown
\* itself does not schedule a reconnect.
C28_NoConnectAfterClose == [][clientClosed => ~SocketOpened]_vars

\* ---------------------------------------------------------------- the grace timer

\* The sessions of the farm and of the client from construction to
\* authentication: sockets open, fail and drop, and the timers fire
NextGrace ==
  \/ FarmInitialize
  \/ \E i \in ConnIds : ConnOpen(i)
  \/ \E i \in ConnIds : ConnAuthTimer(i)
  \/ \E i \in ConnIds : ConnFail(i)
  \/ \E i \in ConnIds : ConnClose(i)
  \/ LinkConnect
  \/ LinkOpen
  \/ LinkAuthTimer
  \/ LinkFail
  \/ \E withError \in BOOLEAN : LinkClose(withError)
  \/ LinkReconnectTimer

SpecGrace == Init /\ [][NextGrace]_vars

\* no session of the farm is flagged authenticated once its socket has closed
C29_FarmFlag ==
  \A i \in DOMAIN connections :
    connections[i].authenticated => connections[i].ws.readyState # "CLOSED"

\* the client is not flagged authenticated once its socket has closed
C29_ClientFlag ==
  isAuthenticated => (optionsWS # <<>> /\ optionsWS[1].readyState # "CLOSED")

\* C29: a session's authenticated flag is true only while its socket is open:
\* when a socket closes before the 1 s grace timer started at open has fired,
\* the timer does not afterwards mark the closed session authenticated, in the
\* farm and in the single-connection client.
C29_AuthenticatedWhileOpen == C29_FarmFlag /\ C29_ClientFlag

\* ---------------------------------------------------------------- the tracking table

\* the contracts, among those given, whose Q.<contract> subscribe frame went out on
\* the session's socket and whose channel is recorded in its subscriptions set
C30_Subscribed(conn, contracts) ==
  {c \in contracts :
     /\ QuoteChannel(c) \in conn.subscriptions
     /\ \E k \in 1..Len(conn.ws.sent) : conn.ws.sent[k] = SubscribeFrame(QuoteChannel(c))}

\* C30: after every rebalance, for every session the tracking table
\* subscribedQuotes[session] equals the set of contracts whose Q.<contract>
\* subscribe frame was actually sent and recorded in that session's
\* subscriptions set, sessions that were not authenticated when the rebalance ran
\* included.
C30_TableMatchesSessions ==
  [][rebalances' # rebalances
       => \A i \in DOMAIN connections' :
            SeqRange(subscribedQuotes'[i])
              = C30_Subscribed(connections'[i], (DOMAIN contractVolume') \cup staticContracts')]_vars

====
